---- MODULE Spec2Model ----
(***************************************************************************)
(* A model of pleb-client's protocol core: the wallet-connect client       *)
(* (nostr/nwc.rs), the zap saga (nostr/zap.rs), the feed and notification  *)
(* controllers (bridge/feed_bridge.rs, bridge/notification_bridge.rs), the *)
(* local cache store (nostr/database.rs), the DM manager (nostr/dm.rs),    *)
(* the signing paths of the bridges and the relay manager (nostr/relay.rs).*)
(*                                                                         *)
(* Each subsystem has its own specification over the shared variable list; *)
(* the variables of the other subsystems stay at their initial values.     *)
(***************************************************************************)
EXTENDS Integers, Sequences, FiniteSets, TLC

VARIABLES
    \* nostr/nwc.rs, nostr/zap.rs
    nwc,            \* NwcManager: connection, keys, client, state, balance_sats
    lastCall,       \* the wallet/zap call that returned last: op and result
    zapLog,         \* requests issued by the last call when it was zap(), in order
    zapArgs,        \* amount and resolved descriptor of the last call when it was zap()
    \* the relays
    relay_conforms, \* whether the relays answer only with events matching the filter
    \* bridge/feed_bridge.rs
    notes,          \* FeedControllerRust.notes
    is_loading,     \* FeedControllerRust.is_loading
    current_feed,   \* FeedControllerRust.current_feed
    FEED_CACHE,     \* feed type string -> Option<Vec<DisplayNote>>
    feedThreads,    \* load_feed background threads still fetching, per feed type string
    qtQueue,        \* closures queued to the Qt thread by load_feed threads, in order
    \* bridge/notification_bridge.rs
    notifications,      \* NotificationControllerRust.notifications
    user_pubkey,        \* NotificationControllerRust.user_pubkey
    oldest_timestamp,   \* NotificationControllerRust.oldest_timestamp
    newest_timestamp,   \* NotificationControllerRust.newest_timestamp
    notif_is_loading,   \* NotificationControllerRust.is_loading
    is_checking,        \* NotificationControllerRust.is_checking
    notifThreads,       \* background threads still fetching, with their filters
    notifQueue,         \* closures queued to the Qt thread, in order
    lastMerge,          \* the last page merged into the list: its request and its notes
    \* nostr/database.rs
    ndb,                \* ids of the events in the durable store
    memory_cache,       \* MemoryCache: events (ids held), event_order
    ingestThreads,      \* where each thread is in ingest_event, and with which event
    inserted,           \* ids that insert_event has been called with
    lastInsert,         \* the last insert_event call: the event count before and after
    lastIngest,         \* the last ingest_event call that returned: its event and result
    insert_history,     \* the ids insert_event was called with, by their latest call
    profiles,           \* MemoryCache.profiles: the pubkeys that have a cached profile
    NOSTR_DB,           \* the OnceLock: None, or the instance it holds
    globalThreads,      \* where each thread is in global(), its handle and its result
    opens,              \* how many times Ndb::new has opened the store
    openHandles,        \* the instances that are open
    \* nostr/dm.rs
    dm_user_pubkey,     \* DmManager.user_pubkey
    conversations,      \* DmManager.conversations: peer -> DmConversation
    categories_file,    \* DmManager.categories_file
    categories_on_disk, \* what the categories file holds, None when it cannot be read
    assigned,           \* peer -> the category set_category gave it last and stored
    \* bridge/feed_bridge.rs, bridge/dm_bridge.rs: signing
    FEED_SIGNER,        \* the external signer of the feed operations, if configured
    FEED_NSEC,          \* the locally held secret key of the feed operations, if any
    DM_SIGNER,          \* the external signer of the DM operations, if configured
    user_nsec,          \* DmControllerRust.user_nsec
    lastSign,           \* the last operation that needed a signature, what it saw and got
    \* nostr/nwc.rs: wallet requests in flight
    wallet_relay,       \* the response events the wallet relay holds
    rpcThreads,         \* where each caller is in its request, its request id and its result
    request_ids,        \* how many request events have been signed
    \* nostr/relay.rs: the relay manager
    rm,                 \* RelayManager: connected, following, the relays added to its client
    ever_connected,     \* whether connect() or connect_to() has been called on it
    lastFetch,          \* the fetch that returned last: its sub-queries and its result
    \* bridge/dm_bridge.rs: the DM controller
    dmc, \* DmControllerRust: user_pubkey, selected_conversation, current_protocol
    DM_CLIENT, \* the relay client of the DM controller, None before initialize
    dm_events, \* the kind-4 events to or from the user that the relays hold
    lastSend, \* the last send_message call: its input, its result, the conversations around it
    \* nostr/dm.rs: the deliveries add_message has seen
    delivered, \* the event ids handed to add_message so far, in call order
    \* bridge/dm_bridge.rs: the protocol the user chose
    chosen, \* per peer, the protocol toggle_protocol last switched to while that peer was selected
    \* nostr/nwc.rs: one from_uri call on a constructed URI
    uri_call, \* the (pubkey, relay, secret) a URI was built from, the URI, and what from_uri made of it
    \* nostr/relay.rs, bridge/notification_bridge.rs: one invoice through both amount parsers
    invoice_call, \* the invoice text, what extract_bolt11_amount and what parse_bolt11_amount made of it
    \* bridge/feed_bridge.rs: the thread view
    thread_notes, \* FeedControllerRust.thread_notes: the notes the thread view lists
    \* bridge/feed_bridge.rs: note stats fetched in the background
    NOTE_STATS_CACHE, \* note id -> the JSON text cached for it
    PENDING_STATS, \* note ids with a fetch marked as pending
    statsThreads, \* the spawned stats fetches and where each one stands
    statsCall, \* fetch_note_stats on the caller side: position, id, returned text
    stats_started, \* history: every fetch spawned, with what held at spawn time
    stats_failed, \* history: the ids whose fetch ended in an error
    \* bridge/feed_bridge.rs: which feed the held and the cached notes were fetched for
    held_for, \* history: the feed types the notes of the held list were fetched for
    cached_for, \* history: the same for the list cached under each key
    \* bridge/feed_bridge.rs: what the view is told
    feed_outcome, \* the last signal emitted by FeedController and how the last worker ended
    \* bridge/app_bridge.rs: AppController and the globals it drives
    NWC_MANAGER, \* app_bridge.rs NWC_MANAGER: the manager connect_nwc connects
    GLOBAL_NWC_MANAGER, \* zap.rs GLOBAL_NWC_MANAGER: the manager zap_note pays with
    SIGNER_CLIENT, \* app_bridge.rs SIGNER_CLIENT
    DM_NSEC, \* dm_bridge.rs DM_NSEC
    app, \* AppController: logged_in, nwc_connected, is_loading, error_message
    session \* history: how the current session was opened (none, signer, nsec)

walletVars == <<nwc, lastCall, zapLog, zapArgs>>
feedVars == <<notes, is_loading, current_feed, FEED_CACHE, feedThreads, qtQueue>>
notifVars == <<notifications, user_pubkey, oldest_timestamp, newest_timestamp,
               notif_is_loading, is_checking, notifThreads, notifQueue, lastMerge>>
dbVars == <<ndb, memory_cache, ingestThreads, inserted, lastInsert, lastIngest,
            insert_history, profiles>>
globalVars == <<NOSTR_DB, globalThreads, opens, openHandles>>
dmVars == <<dm_user_pubkey, conversations, categories_file, categories_on_disk, assigned>>
signVars == <<FEED_SIGNER, FEED_NSEC, DM_SIGNER, user_nsec, lastSign>>

rpcVars == <<wallet_relay, rpcThreads, request_ids>>

rmVars == <<rm, ever_connected, lastFetch>>

dmcVars == <<dmc, DM_CLIENT, dm_events, lastSend>>

deliveryVars == <<delivered>>

choiceVars == <<chosen>>

uriVars == <<uri_call>>

invoiceVars == <<invoice_call>>

threadVars == <<thread_notes>>

statsVars == <<NOTE_STATS_CACHE, PENDING_STATS, statsThreads, statsCall, stats_started, stats_failed>>

originVars == <<held_for, cached_for>>

outcomeVars == <<feed_outcome>>

appVars == <<NWC_MANAGER, GLOBAL_NWC_MANAGER, SIGNER_CLIENT, DM_NSEC, app, session>>

vars == <<nwc, lastCall, zapLog, zapArgs, relay_conforms,
          notes, is_loading, current_feed, FEED_CACHE, feedThreads, qtQueue,
          notifications, user_pubkey, oldest_timestamp, newest_timestamp,
          notif_is_loading, is_checking, notifThreads, notifQueue, lastMerge,
          ndb, memory_cache, ingestThreads, inserted, lastInsert, lastIngest,
          insert_history, profiles,
          NOSTR_DB, globalThreads, opens, openHandles,
          dm_user_pubkey, conversations, categories_file, categories_on_disk, assigned,
          FEED_SIGNER, FEED_NSEC, DM_SIGNER, user_nsec, lastSign,
          wallet_relay, rpcThreads, request_ids,
          rm, ever_connected, lastFetch,
         dmc, DM_CLIENT, dm_events, lastSend,
         delivered,
         chosen,
         uri_call,
         invoice_call,
         thread_notes,
         NOTE_STATS_CACHE, PENDING_STATS, statsThreads, statsCall, stats_started, stats_failed,
         held_for, cached_for,
         feed_outcome,
         NWC_MANAGER, GLOBAL_NWC_MANAGER, SIGNER_CLIENT, DM_NSEC, app, session>>

\* what each subsystem's steps leave alone
outsideWallet == <<relay_conforms, feedVars, notifVars, dbVars, globalVars, dmVars, signVars, rpcVars, rmVars, dmcVars, deliveryVars, choiceVars, uriVars, invoiceVars, threadVars, statsVars, originVars, outcomeVars, appVars>>
outsideFeed == <<relay_conforms, walletVars, notifVars, dbVars, globalVars, dmVars, signVars, rpcVars, rmVars, dmcVars, deliveryVars, choiceVars, uriVars, invoiceVars, threadVars, statsVars, originVars, outcomeVars, appVars>>
outsideFeedAndHistory == <<relay_conforms, walletVars, notifVars, dbVars, globalVars, dmVars, signVars, rpcVars, rmVars, dmcVars, deliveryVars, choiceVars, uriVars, invoiceVars, threadVars, statsVars, appVars>>
outsideNotif == <<relay_conforms, walletVars, feedVars, dbVars, globalVars, dmVars, signVars, rpcVars, rmVars, dmcVars, deliveryVars, choiceVars, uriVars, invoiceVars, threadVars, statsVars, originVars, outcomeVars, appVars>>
outsideDb == <<relay_conforms, walletVars, feedVars, notifVars, globalVars, dmVars, signVars, rpcVars, rmVars, dmcVars, deliveryVars, choiceVars, uriVars, invoiceVars, threadVars, statsVars, originVars, outcomeVars, appVars>>
outsideDm == <<relay_conforms, walletVars, feedVars, notifVars, dbVars, globalVars, signVars, rpcVars, rmVars, dmcVars, deliveryVars, choiceVars, uriVars, invoiceVars, threadVars, statsVars, originVars, outcomeVars, appVars>>
outsideSign == <<relay_conforms, walletVars, feedVars, notifVars, dbVars, globalVars, dmVars, rpcVars, rmVars, dmcVars, deliveryVars, choiceVars, uriVars, invoiceVars, threadVars, statsVars, originVars, outcomeVars, appVars>>
outsideGlobal == <<relay_conforms, walletVars, feedVars, notifVars, dbVars, dmVars, signVars, rpcVars, rmVars, dmcVars, deliveryVars, choiceVars, uriVars, invoiceVars, threadVars, statsVars, originVars, outcomeVars, appVars>>
outsideRpc == <<relay_conforms, walletVars, feedVars, notifVars, dbVars, globalVars, dmVars, signVars, rmVars, dmcVars, deliveryVars, choiceVars, uriVars, invoiceVars, threadVars, statsVars, originVars, outcomeVars, appVars>>
outsideRm == <<relay_conforms, walletVars, feedVars, notifVars, dbVars, globalVars, dmVars, signVars, rpcVars, dmcVars, deliveryVars, choiceVars, uriVars, invoiceVars, threadVars, statsVars, originVars, outcomeVars, appVars>>
outsideDmc == <<relay_conforms, walletVars, feedVars, notifVars, dbVars, globalVars, dmVars, signVars, rpcVars, rmVars, deliveryVars, choiceVars, uriVars, invoiceVars, threadVars, statsVars, originVars, outcomeVars, appVars>>
outsideDelivery == <<relay_conforms, walletVars, feedVars, notifVars, dbVars, globalVars, dmVars, signVars, rpcVars, rmVars, dmcVars, choiceVars, uriVars, invoiceVars, threadVars, statsVars, originVars, outcomeVars, appVars>>
outsideChoice == <<relay_conforms, walletVars, feedVars, notifVars, dbVars, globalVars, dmVars, signVars, rpcVars, rmVars, dmcVars, deliveryVars, uriVars, invoiceVars, threadVars, statsVars, originVars, outcomeVars, appVars>>
outsideUri == <<relay_conforms, walletVars, feedVars, notifVars, dbVars, globalVars, dmVars, signVars, rpcVars, rmVars, dmcVars, deliveryVars, choiceVars, invoiceVars, threadVars, statsVars, originVars, outcomeVars, appVars>>
outsideInvoice == <<relay_conforms, walletVars, feedVars, notifVars, dbVars, globalVars, dmVars, signVars, rpcVars, rmVars, dmcVars, deliveryVars, choiceVars, uriVars, threadVars, statsVars, originVars, outcomeVars, appVars>>
outsideDmAndDmc == <<relay_conforms, walletVars, feedVars, notifVars, dbVars, globalVars, signVars, rpcVars, rmVars, deliveryVars, choiceVars, uriVars, invoiceVars, threadVars, statsVars, originVars, outcomeVars, appVars>>
outsideDmcAndChoice == <<relay_conforms, walletVars, feedVars, notifVars, dbVars, globalVars, dmVars, signVars, rpcVars, rmVars, deliveryVars, uriVars, invoiceVars, threadVars, statsVars, originVars, outcomeVars, appVars>>
outsideDmAndDelivery == <<relay_conforms, walletVars, feedVars, notifVars, dbVars, globalVars, signVars, rpcVars, rmVars, dmcVars, choiceVars, uriVars, invoiceVars, threadVars, statsVars, originVars, outcomeVars, appVars>>
outsideThread == <<relay_conforms, walletVars, feedVars, notifVars, dbVars, globalVars, dmVars, signVars, rpcVars, rmVars, dmcVars, deliveryVars, choiceVars, uriVars, invoiceVars, statsVars, originVars, outcomeVars, appVars>>
outsideRmAndThread == <<relay_conforms, walletVars, feedVars, notifVars, dbVars, globalVars, dmVars, signVars, rpcVars, dmcVars, deliveryVars, choiceVars, uriVars, invoiceVars, statsVars, originVars, outcomeVars, appVars>>
outsideStats == <<relay_conforms, walletVars, feedVars, notifVars, dbVars, globalVars, dmVars, signVars, rpcVars, rmVars, dmcVars, deliveryVars, choiceVars, uriVars, invoiceVars, threadVars, originVars, outcomeVars, appVars>>
outsideOrigin == <<relay_conforms, walletVars, feedVars, notifVars, dbVars, globalVars, dmVars, signVars, rpcVars, rmVars, dmcVars, deliveryVars, choiceVars, uriVars, invoiceVars, threadVars, statsVars, outcomeVars, appVars>>
outsideOutcome == <<relay_conforms, walletVars, feedVars, notifVars, dbVars, globalVars, dmVars, signVars, rpcVars, rmVars, dmcVars, deliveryVars, choiceVars, uriVars, invoiceVars, threadVars, statsVars, originVars, appVars>>
outsideApp == <<relay_conforms, walletVars, feedVars, notifVars, dbVars, globalVars, dmVars, signVars, rpcVars, rmVars, dmcVars, deliveryVars, choiceVars, uriVars, invoiceVars, threadVars, statsVars, originVars, outcomeVars>>
outsideAppAndSign == <<relay_conforms, walletVars, feedVars, notifVars, dbVars, globalVars, dmVars, rpcVars, rmVars, dmcVars, deliveryVars, choiceVars, uriVars, invoiceVars, threadVars, statsVars, originVars, outcomeVars>>

\* Option<T> as a sequence of length 0 or 1
None == << >>
Some(x) == <<x>>
IsSome(o) == Len(o) = 1
Unwrap(o) == o[1]

\* Result<T, String>
Ok(v) == [ok |-> TRUE, val |-> <<v>>, err |-> ""]
Err(e) == [ok |-> FALSE, val |-> << >>, err |-> e]

(***************************************************************************)
(* nostr/nwc.rs                                                            *)
(***************************************************************************)

\* A URI is its text cut into tokens: the scheme, then single characters, with
\* a key's hex text and a parameter name as one token each (they hold none of
\* the characters the parser looks for).  "w" stands for an unreserved
\* character; "2", "5", "6" and "F" are the hex digits of the model.
RelayR1 == <<"w", "/", "w">>
RelayR2 == <<"w", "/", "w", "w">>

Uris ==
    { <<"nostr+walletconnect://", "w1", "?", "relay", "=", "w", "%", "2", "F", "w",
        "&", "secret", "=", "s1">>,
      <<"nostr://", "w2", "?", "secret", "=", "s2", "&", "relay", "=", "w", "/", "w", "w",
        "&", "lud16", "=", "me@d">>,
      <<"nostr+walletconnect://", "w1", "?", "relay", "=", "w", "/", "w">>,
      <<"nostr+walletconnect://", "w1", "?", "secret", "=", "s1">>,
      <<"nostr+walletconnect://", "?", "relay", "=", "w", "/", "w", "&", "secret", "=", "s1">>,
      <<"nostr+walletconnect://", "w1">>,
      <<"https://", "w1", "?", "relay", "=", "w", "/", "w", "&", "secret", "=", "s1">>,
      <<"nostr+walletconnect://", "w1", "?", "relay", "=", "w", "&", "secret", "=", "s1">>,
      <<"nostr+walletconnect://", "w1", "?", "relay", "=", "%", "F", "F", "&", "secret", "=", "s1">>,
      <<"nostr+walletconnect://", "w1", "?", "relay", "=", "w", "/", "w", "&", "secret", "=", "zz">> }

\* PublicKey::from_hex / from_bech32 and SecretKey::from_hex accept these texts
ValidPubkeys == {"w1", "w2"}
ValidSecrets == {"s1", "s2"}
\* Client::add_relay accepts these relay URLs
ValidRelayUrls == {RelayR1, RelayR2}

HexDigits == {"2", "5", "6", "F"}

\* the byte a pair of hex digits stands for; the bytes F2, F5, F6 and FF
\* cannot stand alone in UTF-8
HexByte(h1, h2) ==
    CASE <<h1, h2>> = <<"2", "2">> -> "\""
      [] <<h1, h2>> = <<"2", "5">> -> "%"
      [] <<h1, h2>> = <<"2", "6">> -> "&"
      [] <<h1, h2>> = <<"2", "F">> -> "/"
      [] <<h1, h2>> = <<"5", "2">> -> "R"
      [] <<h1, h2>> = <<"5", "5">> -> "U"
      [] <<h1, h2>> = <<"5", "6">> -> "V"
      [] <<h1, h2>> = <<"5", "F">> -> "_"
      [] <<h1, h2>> = <<"6", "2">> -> "b"
      [] <<h1, h2>> = <<"6", "5">> -> "e"
      [] <<h1, h2>> = <<"6", "6">> -> "f"
      [] <<h1, h2>> = <<"6", "F">> -> "o"
      [] OTHER -> "invalid utf-8"

RECURSIVE percent_decode(_)
\* urlencoding::decode_binary: %XX becomes its byte, any other '%' stays
percent_decode(t) ==
    IF t = << >> THEN << >>
    ELSE IF Len(t) >= 3 /\ t[1] = "%" /\ t[2] \in HexDigits /\ t[3] \in HexDigits
    THEN <<HexByte(t[2], t[3])>> \o percent_decode(SubSeq(t, 4, Len(t)))
    ELSE <<Head(t)>> \o percent_decode(Tail(t))

\* A decode that hands the text back as it came
UrlDecode_leaving_escapes(t) == Ok(t)

\* urlencoding::decode: the bytes, when they are UTF-8
UrlDecode(t) ==
    LET bytes == percent_decode(t)
    IN  IF \E i \in DOMAIN bytes : bytes[i] = "invalid utf-8"
        THEN Err("Failed to decode relay URL")
        ELSE Ok(bytes)

RECURSIVE UrlEncode(_)
\* urlencoding::encode: every character that is not unreserved becomes %XX
UrlEncode(t) ==
    IF t = << >> THEN << >>
    ELSE (CASE Head(t) = "%" -> <<"%", "2", "5">>
            [] Head(t) = "&" -> <<"%", "2", "6">>
            [] Head(t) = "/" -> <<"%", "2", "F">>
            [] OTHER -> <<Head(t)>>) \o UrlEncode(Tail(t))

\* str::find: the place of the first tok in t, 0 when there is none
Find(t, tok) ==
    IF \E i \in DOMAIN t : t[i] = tok
    THEN CHOOSE i \in DOMAIN t : t[i] = tok /\ \A j \in 1..(i - 1) : t[j] # tok
    ELSE 0

RECURSIVE Split(_, _)
\* str::split
Split(t, tok) ==
    IF Find(t, tok) = 0 THEN <<t>>
    ELSE <<SubSeq(t, 1, Find(t, tok) - 1)>> \o Split(SubSeq(t, Find(t, tok) + 1, Len(t)), tok)

RECURSIVE scan_params(_, _)
\* for param in query.split('&'): the parameters seen, a failed decode of a
\* relay value ending the scan
scan_params(params, seen) ==
    IF params = << >> THEN Ok(seen)
    ELSE LET param == Head(params)
             eq == Find(param, "=")
             key == SubSeq(param, 1, eq - 1)
             value == SubSeq(param, eq + 1, Len(param))
         IN  IF eq = 0 THEN scan_params(Tail(params), seen)
             ELSE IF key = <<"relay">>
             THEN IF UrlDecode(value).ok
                  THEN scan_params(Tail(params),
                                   [seen EXCEPT !.relay_url = Some(Unwrap(UrlDecode(value).val))])
                  ELSE Err(UrlDecode(value).err)
             ELSE IF key = <<"secret">>
             THEN scan_params(Tail(params), [seen EXCEPT !.secret_str = Some(value)])
             ELSE IF key = <<"lud16">>
             THEN scan_params(Tail(params), [seen EXCEPT !.lud16 = Some(value)])
             ELSE scan_params(Tail(params), seen)

NoParams == [relay_url |-> None, secret_str |-> None, lud16 |-> None]

\* A from_uri that makes up the secret a URI does not give
from_uri_defaulting_secret(uri) ==
    IF uri = << >> \/ Head(uri) \notin {"nostr+walletconnect://", "nostr://"}
    THEN Err("Invalid NWC URI scheme")
    ELSE
      LET without_scheme == Tail(uri)
          idx == Find(without_scheme, "?")
          pubkey_str == SubSeq(without_scheme, 1, idx - 1)
          query == SubSeq(without_scheme, idx + 1, Len(without_scheme))
          scanned == scan_params(Split(query, "&"), NoParams)
      IN  IF idx = 0 THEN Err("Missing query parameters in NWC URI")
          ELSE IF ~(Len(pubkey_str) = 1 /\ pubkey_str[1] \in ValidPubkeys)
          THEN Err("Invalid pubkey in NWC URI")
          ELSE IF ~scanned.ok THEN Err(scanned.err)
          ELSE
            LET seen == Unwrap(scanned.val)
                secret_str == IF IsSome(seen.secret_str) THEN Unwrap(seen.secret_str)
                              ELSE <<"s1">>
            IN  IF ~IsSome(seen.relay_url) THEN Err("Missing relay in NWC URI")
                ELSE IF ~(Len(secret_str) = 1 /\ secret_str[1] \in ValidSecrets)
                THEN Err("Invalid secret in NWC URI")
                ELSE Ok([relay_url |-> Unwrap(seen.relay_url),
                         wallet_pubkey |-> pubkey_str[1],
                         secret |-> secret_str[1],
                         lud16 |-> seen.lud16])

\* NwcConnection::from_uri
from_uri(uri) ==
    IF uri = << >> \/ Head(uri) \notin {"nostr+walletconnect://", "nostr://"}
    THEN Err("Invalid NWC URI scheme")
    ELSE
      LET without_scheme == Tail(uri)
          idx == Find(without_scheme, "?")
          pubkey_str == SubSeq(without_scheme, 1, idx - 1)
          query == SubSeq(without_scheme, idx + 1, Len(without_scheme))
          scanned == scan_params(Split(query, "&"), NoParams)
      IN  IF idx = 0 THEN Err("Missing query parameters in NWC URI")
          ELSE IF ~(Len(pubkey_str) = 1 /\ pubkey_str[1] \in ValidPubkeys)
          THEN Err("Invalid pubkey in NWC URI")
          ELSE IF ~scanned.ok THEN Err(scanned.err)
          ELSE
            LET seen == Unwrap(scanned.val)
            IN  IF ~IsSome(seen.relay_url) THEN Err("Missing relay in NWC URI")
                ELSE IF ~IsSome(seen.secret_str) THEN Err("Missing secret in NWC URI")
                ELSE IF ~(Len(Unwrap(seen.secret_str)) = 1
                          /\ Unwrap(seen.secret_str)[1] \in ValidSecrets)
                THEN Err("Invalid secret in NWC URI")
                ELSE Ok([relay_url |-> Unwrap(seen.relay_url),
                         wallet_pubkey |-> pubkey_str[1],
                         secret |-> Unwrap(seen.secret_str)[1],
                         lud16 |-> seen.lud16])

MaxRelayLen == 3

\* the characters of a relay URL: unreserved ones, hex digits, and the two
\* the URI syntax gives a meaning to
RelayChars == {"w", "2", "5", "%", "&"}
RelayTexts == UNION {[1..n -> RelayChars] : n \in 0..MaxRelayLen}

\* "NWC URI format: nostr+walletconnect://pubkey?relay=wss://...&secret=hex",
\* the relay URL percent-encoded as from_uri decodes it, or written as it is
to_uri(pubkey, relay, secret, encoded) ==
    <<"nostr+walletconnect://", pubkey, "?", "relay", "=">>
        \o (IF encoded THEN UrlEncode(relay) ELSE relay)
        \o <<"&", "secret", "=", secret>>

NoUriCall == [pubkey |-> "", relay |-> << >>, secret |-> "", encoded |-> FALSE,
              parsed |-> Err("none")]

\* NwcConnection::from_uri on a URI built from a pubkey, a relay URL and a secret
ParseBuiltUri ==
    \E pubkey \in ValidPubkeys, relay \in RelayTexts, secret \in ValidSecrets, encoded \in BOOLEAN :
        /\ uri_call = NoUriCall
        /\ uri_call' = [pubkey |-> pubkey, relay |-> relay, secret |-> secret,
                        encoded |-> encoded,
                        parsed |-> from_uri(to_uri(pubkey, relay, secret, encoded))]
        /\ UNCHANGED outsideUri

UriInit == uri_call = NoUriCall

\* NwcManager::new
NwcNew ==
    [connection |-> None, keys |-> None, client |-> None,
     state |-> "Disconnected", balance_sats |-> 0]

\* What the wallet side does with one request: the request cannot be sent,
\* no response arrives in time, or a response with an "error" field, with a
\* well-formed result, with both, or with neither arrives.
WalletOutcomes == {"send_failed", "no_response", "error", "result",
                   "result_and_error", "malformed"}

\* response.get("result") finds the field the call is after
HasResult(outcome) == outcome \in {"result", "result_and_error"}

\* millisats per sat: fetch_balance divides by it, zap() multiplies by it
MsatsPerSat == 1000

\* Balances the wallet reports, in millisats (steps of half a sat)
MaxBalanceHalfSats == 2
Balances == {500 * k : k \in 0..MaxBalanceHalfSats}

\* NwcManager::is_connected
is_connected(m) == m.state = "Connected"

\* NwcManager::fetch_balance; yields the manager afterwards, the result and
\* whether a request event was sent
fetch_balance(m, outcome, bal) ==
    IF ~(IsSome(m.client) /\ IsSome(m.connection) /\ IsSome(m.keys))
    THEN [m |-> m, res |-> Err("Not connected to NWC"), sent |-> FALSE]
    ELSE IF outcome = "send_failed"
    THEN [m |-> m, res |-> Err("Failed to send NWC request"), sent |-> FALSE]
    ELSE IF HasResult(outcome)
    THEN [m |-> [m EXCEPT !.balance_sats = bal \div MsatsPerSat],
          res |-> Ok(bal \div MsatsPerSat), sent |-> TRUE]
    ELSE IF outcome = "error"
    THEN [m |-> m, res |-> Err("NWC error"), sent |-> TRUE]
    ELSE [m |-> m, res |-> Err("No response from NWC"), sent |-> TRUE]

\* A pay_invoice that gives the connection up when no response arrives
pay_invoice_disconnecting_on_timeout(m, invoice, outcome, balOutcome, bal) ==
    IF ~(IsSome(m.client) /\ IsSome(m.connection) /\ IsSome(m.keys))
    THEN [m |-> m, res |-> Err("Not connected to NWC"), sent |-> FALSE]
    ELSE IF outcome = "send_failed"
    THEN [m |-> m, res |-> Err("Failed to send NWC request"), sent |-> FALSE]
    ELSE IF HasResult(outcome)
    THEN [m |-> fetch_balance(m, balOutcome, bal).m,
          res |-> Ok("preimage"), sent |-> TRUE]
    ELSE IF outcome = "error"
    THEN [m |-> m, res |-> Err("Payment failed"), sent |-> TRUE]
    ELSE [m |-> [m EXCEPT !.client = None, !.state = "Disconnected"],
          res |-> Err("No response from NWC"), sent |-> TRUE]

\* NwcManager::pay_invoice; on a preimage the balance is refreshed
pay_invoice(m, invoice, outcome, balOutcome, bal) ==
    IF ~(IsSome(m.client) /\ IsSome(m.connection) /\ IsSome(m.keys))
    THEN [m |-> m, res |-> Err("Not connected to NWC"), sent |-> FALSE]
    ELSE IF outcome = "send_failed"
    THEN [m |-> m, res |-> Err("Failed to send NWC request"), sent |-> FALSE]
    ELSE IF HasResult(outcome)
    THEN [m |-> fetch_balance(m, balOutcome, bal).m,
          res |-> Ok("preimage"), sent |-> TRUE]
    ELSE IF outcome = "error"
    THEN [m |-> m, res |-> Err("Payment failed"), sent |-> TRUE]
    ELSE [m |-> m, res |-> Err("No response from NWC"), sent |-> TRUE]

\* NwcManager::make_invoice
make_invoice(m, amount_sats, description, outcome) ==
    IF ~(IsSome(m.client) /\ IsSome(m.connection) /\ IsSome(m.keys))
    THEN [m |-> m, res |-> Err("Not connected to NWC"), sent |-> FALSE]
    ELSE IF outcome = "send_failed"
    THEN [m |-> m, res |-> Err("Failed to send NWC request"), sent |-> FALSE]
    ELSE IF HasResult(outcome)
    THEN [m |-> m, res |-> Ok("invoice"), sent |-> TRUE]
    ELSE IF outcome = "error"
    THEN [m |-> m, res |-> Err("Failed to create invoice"), sent |-> TRUE]
    ELSE [m |-> m, res |-> Err("No response from NWC"), sent |-> TRUE]

\* NwcManager::connect, from entry to return
connect(m, uri, balOutcome, bal) ==
    LET m1 == [m EXCEPT !.state = "Connecting"]
        parsed == from_uri(uri)
    IN  IF ~parsed.ok THEN [m |-> m1, res |-> Err(parsed.err), opened |-> FALSE]
        ELSE
          LET connection == Unwrap(parsed.val)
          IN  IF connection.relay_url \notin ValidRelayUrls
              THEN [m |-> m1, res |-> Err("Failed to add relay"), opened |-> FALSE]
              ELSE
                LET m2 == [m1 EXCEPT !.keys = Some(connection.secret),
                                     !.connection = Some(connection),
                                     !.client = Some(connection.relay_url),
                                     !.state = "Connected"]
                IN  [m |-> fetch_balance(m2, balOutcome, bal).m, res |-> Ok("unit"),
                     opened |-> TRUE]

\* NwcManager::disconnect
disconnect(m) ==
    [m EXCEPT !.client = None, !.keys = None, !.connection = None,
              !.state = "Disconnected", !.balance_sats = 0]

NoCall == [op |-> "none", res |-> Ok("unit"), response |-> "none"]
NoZapArgs == [amount_msats |-> 0, resolved |-> None, stage |-> "none"]

\* connect(uri); the wallet's answer to the balance request is drawn only when
\* the call gets as far as asking
Connect ==
    \E uri \in Uris :
    LET asks == /\ from_uri(uri).ok
                /\ Unwrap(from_uri(uri).val).relay_url \in ValidRelayUrls
    IN
    \E o \in (IF asks THEN WalletOutcomes ELSE {"no_response"}) :
    \E b \in (IF HasResult(o) THEN Balances ELSE {0}) :
        LET r == connect(nwc, uri, o, b)
        IN  /\ nwc' = r.m
            /\ lastCall' = [op |-> "connect", res |-> r.res, response |-> "none",
                            uri |-> uri, opened |-> r.opened]
            /\ zapLog' = << >>
            /\ zapArgs' = NoZapArgs
            /\ UNCHANGED outsideWallet

Disconnect ==
    /\ nwc' = disconnect(nwc)
    /\ lastCall' = [op |-> "disconnect", res |-> Ok("unit"), response |-> "none"]
    /\ zapLog' = << >>
    /\ zapArgs' = NoZapArgs
    /\ UNCHANGED outsideWallet

\* the response that was decrypted and parsed, when the call got one
Response(r, outcome) ==
    IF r.sent /\ outcome # "no_response" THEN outcome ELSE "none"

FetchBalance ==
    \E o \in WalletOutcomes :
    \E b \in (IF HasResult(o) THEN Balances ELSE {0}) :
        LET r == fetch_balance(nwc, o, b)
        IN  /\ nwc' = r.m
            /\ lastCall' = [op |-> "fetch_balance", res |-> r.res,
                            response |-> Response(r, o)]
            /\ zapLog' = << >>
            /\ zapArgs' = NoZapArgs
            /\ UNCHANGED outsideWallet

PayInvoice ==
    \E o \in WalletOutcomes :
    \E bo \in (IF HasResult(o) THEN {"result", "no_response"} ELSE {"no_response"}) :
    \E b \in (IF bo = "result" THEN Balances ELSE {0}) :
        LET r == pay_invoice(nwc, "invoice", o, bo, b)
        IN  /\ nwc' = r.m
            /\ lastCall' = [op |-> "pay_invoice", res |-> r.res,
                            response |-> Response(r, o)]
            /\ zapLog' = << >>
            /\ zapArgs' = NoZapArgs
            /\ UNCHANGED outsideWallet

MakeInvoice ==
    \E o \in WalletOutcomes, amount_sats \in 1..MaxBalanceHalfSats :
        LET r == make_invoice(nwc, amount_sats, "description", o)
        IN  /\ nwc' = r.m
            /\ lastCall' = [op |-> "make_invoice", res |-> r.res,
                            response |-> Response(r, o)]
            /\ zapLog' = << >>
            /\ zapArgs' = NoZapArgs
            /\ UNCHANGED outsideWallet

(***************************************************************************)
(* nostr/zap.rs                                                            *)
(***************************************************************************)

MaxAmountSats == 2
AmountsSats == 0..MaxAmountSats

\* LnurlPayResponse descriptors a payment service may declare (millisats)
Sendables == {1000, 2000}
Descriptors ==
    [min_sendable : Sendables, max_sendable : Sendables, allows_nostr : BOOLEAN]

\* Lightning addresses: user@domain, and texts that do not split in two at '@'
Lud16s == {"alice@d", "alice", "a@b@c"}
AtParts(lud16) ==
    CASE lud16 = "alice@d" -> 2
      [] lud16 = "alice" -> 1
      [] lud16 = "a@b@c" -> 3

\* What an HTTP GET may come to
HttpOutcomes == {"send_failed", "bad_status", "lnurl_error", "unparsable", "ok"}

\* resolve_lnurl: the result and the HTTP requests issued
resolve_lnurl(lud16, http, descriptor) ==
    IF AtParts(lud16) # 2
    THEN [res |-> Err("Invalid lightning address format"), log |-> << >>]
    ELSE
      LET log == <<"GET lnurlp">>
      IN  CASE http = "send_failed" -> [res |-> Err("Failed to fetch LNURL"), log |-> log]
            [] http = "bad_status" ->
                 [res |-> Err("LNURL request failed with status"), log |-> log]
            [] http = "lnurl_error" -> [res |-> Err("LNURL error"), log |-> log]
            [] http = "unparsable" ->
                 [res |-> Err("Failed to parse LNURL response"), log |-> log]
            [] http = "ok" -> [res |-> Ok(descriptor), log |-> log]

\* A get_zap_invoice that asks the callback first and validates the bounds on
\* the way back
get_zap_invoice_validating_late(lnurl_response, amount_msats, zap_request, http) ==
    LET log == IF IsSome(zap_request) /\ lnurl_response.allows_nostr
               THEN <<"GET callback amount nostr">>
               ELSE <<"GET callback amount">>
    IN  IF http # "ok" THEN [res |-> Err("Failed to fetch invoice"), log |-> log]
        ELSE IF amount_msats < lnurl_response.min_sendable
        THEN [res |-> Err("Amount is below minimum"), log |-> log]
        ELSE IF amount_msats > lnurl_response.max_sendable
        THEN [res |-> Err("Amount exceeds maximum"), log |-> log]
        ELSE [res |-> Ok("invoice"), log |-> log]

\* get_zap_invoice: the bounds are validated before the callback URL is built
get_zap_invoice(lnurl_response, amount_msats, zap_request, http) ==
    IF amount_msats < lnurl_response.min_sendable
    THEN [res |-> Err("Amount is below minimum"), log |-> << >>]
    ELSE IF amount_msats > lnurl_response.max_sendable
    THEN [res |-> Err("Amount exceeds maximum"), log |-> << >>]
    ELSE
      LET log == IF IsSome(zap_request) /\ lnurl_response.allows_nostr
                 THEN <<"GET callback amount nostr">>
                 ELSE <<"GET callback amount">>
      IN  CASE http = "send_failed" ->
                 [res |-> Err("Failed to fetch invoice"), log |-> log]
            [] http = "bad_status" ->
                 [res |-> Err("Invoice request failed with status"), log |-> log]
            [] http = "lnurl_error" -> [res |-> Err("LNURL error"), log |-> log]
            [] http = "unparsable" ->
                 [res |-> Err("Failed to parse invoice response"), log |-> log]
            [] http = "ok" -> [res |-> Ok("invoice"), log |-> log]

\* zap(): resolve -> zap request -> invoice -> pay, each `?` returning early
zap(m, lud16, amount_sats, http1, descriptor, signOk, http2, payOutcome, balOutcome, bal) ==
    LET amount_msats == amount_sats * MsatsPerSat
        r1 == resolve_lnurl(lud16, http1, descriptor)
    IN  IF ~r1.res.ok
        THEN [m |-> m, res |-> r1.res, log |-> r1.log, stage |-> "resolution",
              amount_msats |-> amount_msats, resolved |-> None]
        ELSE
          LET lnurl_response == Unwrap(r1.res.val)
              resolved == Some(lnurl_response)
          IN  IF lnurl_response.allows_nostr /\ ~signOk
              THEN [m |-> m, res |-> Err("Failed to sign zap request"), log |-> r1.log,
                    stage |-> "zap request", amount_msats |-> amount_msats, resolved |-> resolved]
              ELSE
                LET zap_request == IF lnurl_response.allows_nostr
                                   THEN Some("zap request") ELSE None
                    r3 == get_zap_invoice(lnurl_response, amount_msats, zap_request, http2)
                IN  IF ~r3.res.ok
                    THEN [m |-> m, res |-> r3.res, log |-> r1.log \o r3.log,
                          stage |-> IF r3.log = << >> THEN "bounds" ELSE "invoice",
                          amount_msats |-> amount_msats, resolved |-> resolved]
                    ELSE
                      LET r4 == pay_invoice(m, Unwrap(r3.res.val), payOutcome,
                                            balOutcome, bal)
                      IN  [m |-> r4.m, res |-> r4.res,
                           log |-> r1.log \o r3.log \o
                                   (IF r4.sent THEN <<"NWC pay_invoice">> ELSE << >>),
                           stage |-> IF r4.res.ok THEN "none" ELSE "payment",
                           amount_msats |-> amount_msats, resolved |-> resolved]

\* The environment of one zap() call is drawn stage by stage: the outcome of
\* a stage is drawn only when the call gets that far.
Zap ==
    \E lud16 \in Lud16s, a \in AmountsSats :
    \E h1 \in (IF AtParts(lud16) = 2 THEN HttpOutcomes ELSE {"ok"}) :
    \E d \in (IF AtParts(lud16) = 2 /\ h1 = "ok" THEN Descriptors
              ELSE {[min_sendable |-> 1000, max_sendable |-> 1000, allows_nostr |-> FALSE]}) :
    \E signOk \in (IF AtParts(lud16) = 2 /\ h1 = "ok" /\ d.allows_nostr
                   THEN BOOLEAN ELSE {TRUE}) :
    LET asked == /\ AtParts(lud16) = 2 /\ h1 = "ok" /\ signOk
                 /\ a * MsatsPerSat >= d.min_sendable
                 /\ a * MsatsPerSat <= d.max_sendable
    IN
    \E h2 \in (IF asked THEN HttpOutcomes ELSE {"ok"}) :
    \E po \in (IF asked /\ h2 = "ok" THEN WalletOutcomes ELSE {"result"}) :
    \E bo \in (IF asked /\ h2 = "ok" /\ HasResult(po)
               THEN {"result", "no_response"} ELSE {"no_response"}) :
    \E b \in (IF bo = "result" THEN Balances ELSE {0}) :
        LET r == zap(nwc, lud16, a, h1, d, signOk, h2, po, bo, b)
        IN  /\ nwc' = r.m
            /\ lastCall' = [op |-> "zap", res |-> r.res, response |-> "none"]
            /\ zapLog' = r.log
            /\ zapArgs' = [amount_msats |-> r.amount_msats, resolved |-> r.resolved,
                            stage |-> r.stage]
            /\ UNCHANGED outsideWallet

WalletInit ==
    /\ nwc = NwcNew
    /\ lastCall = NoCall
    /\ zapLog = << >>
    /\ zapArgs = NoZapArgs

WalletNext == Connect \/ Disconnect \/ FetchBalance \/ PayInvoice \/ MakeInvoice \/ Zap

(***************************************************************************)
(* The relays and nostr/relay.rs                                           *)
(***************************************************************************)

\* The events that exist on the relays, by id
EventIds == {1, 2}

\* An event's id fixes its creation time
created_at(e) == (e + 2) \div 2

\* Filter::since / Filter::until, both inclusive
Matches(e, since, until) ==
    /\ IsSome(since) => created_at(e) >= Unwrap(since)
    /\ IsSome(until) => created_at(e) <= Unwrap(until)

\* What the relays may answer to a query with the given bounds. The relays are
\* independent, untrusted servers: a conforming relay answers only with events
\* matching the filter, another may answer with any events.
RelayAnswers(since, until) ==
    IF relay_conforms
    THEN SUBSET {e \in EventIds : Matches(e, since, until)}
    ELSE SUBSET EventIds

RECURSIVE EventsInOrder(_)
\* Events: the merged answers without repeated ids, newest first
EventsInOrder(S) ==
    IF S = {} THEN << >>
    ELSE LET first == CHOOSE e \in S : \A o \in S :
                          \/ created_at(o) < created_at(e)
                          \/ created_at(o) = created_at(e) /\ e <= o
         IN  <<first>> \o EventsInOrder(S \ {first})

\* fetch_following_feed / fetch_home_feed / fetch_global_feed /
\* fetch_notifications: an error, or the events the relays sent
FetchResults(since, until) ==
    {Err("Failed to fetch")} \cup
    {Ok(EventsInOrder(S)) : S \in RelayAnswers(since, until)}

(***************************************************************************)
(* bridge/feed_bridge.rs                                                   *)
(***************************************************************************)

\* feed type strings load_feed is called with, and the keys of FEED_CACHE
\* (current_feed is "" until the first load_feed)
Feeds == {"following", "global"}
FeedKeys == Feeds \cup {""}

\* FeedType::from_str
FeedType_from_str(text) == IF text = "global" THEN "Global" ELSE "Following"

\* the feed types a list of notes was fetched for, given the one just fetched
FetchedFor(list, feed_types) == IF list = << >> THEN {} ELSE feed_types

\* DisplayNote::from_event
from_event(e) == [id |-> e, created_at |-> created_at(e)]

\* events.iter().map(DisplayNote::from_event).collect()
to_notes(events) == [i \in 1..Len(events) |-> from_event(events[i])]

\* the place of n in the descending list t, behind every note at least as new
RECURSIVE insert_desc(_, _)
insert_desc(n, t) ==
    IF t = << >> THEN <<n>>
    ELSE IF Head(t).created_at >= n.created_at
    THEN <<Head(t)>> \o insert_desc(n, Tail(t))
    ELSE <<n>> \o t

\* notes.sort_by(|a, b| b.created_at.cmp(&a.created_at)): stable, descending
RECURSIVE sort_desc(_)
sort_desc(s) ==
    IF s = << >> THEN << >>
    ELSE insert_desc(s[Len(s)], sort_desc(SubSeq(s, 1, Len(s) - 1)))

ids_of(list) == {list[i].id : i \in 1..Len(list)}

\* load_feed threads fetching plus closures not yet run
MaxInFlight == 1
InFlight ==
    Len(qtQueue) + feedThreads[""] + feedThreads["following"] + feedThreads["global"]

\* a signal emitted to the view, and the end of the worker that led to it
Outcome(signal, worker) == [signal |-> signal, worker |-> worker]

\* what join() hands back: the worker's result, or Err for a worker that panicked
JoinResults(results) == results \cup {Err("panic")}

\* how the worker behind a join() result ended
WorkerEnd(result) ==
    IF result.ok THEN "ok" ELSE IF result.err = "panic" THEN "panic" ELSE "error"

\* load_feed(feed_type), reading the cache as `cache`
load_feed(feed_type, cache) ==
    /\ current_feed' = feed_type
    /\ FEED_CACHE' = cache
    /\ cached_for' = [k \in FeedKeys |-> IF IsSome(cache[k]) THEN cached_for[k] ELSE {}]
    /\ IF IsSome(cache[feed_type]) /\ Unwrap(cache[feed_type]) # << >>
       THEN /\ notes' = Unwrap(cache[feed_type])
            /\ held_for' = cached_for[feed_type]
            /\ is_loading' = FALSE
            /\ feed_outcome' = Outcome("feed_updated", "none")
            /\ UNCHANGED feedThreads
       ELSE /\ InFlight < MaxInFlight
            /\ is_loading' = TRUE
            /\ feed_outcome' = Outcome("loading_changed", "none")
            /\ feedThreads' = [feedThreads EXCEPT ![feed_type] = @ + 1]
            /\ UNCHANGED <<notes, held_for>>
    /\ UNCHANGED qtQueue

LoadFeed ==
    \E feed_type \in Feeds :
        /\ load_feed(feed_type, FEED_CACHE)
        /\ UNCHANGED outsideFeedAndHistory

\* the background thread of load_feed: fetch, sort, cache, queue the closure
LoadFeedThread ==
    \E key \in FeedKeys : \E result \in FetchResults(None, None) :
        /\ feedThreads[key] > 0
        /\ feedThreads' = [feedThreads EXCEPT ![key] = @ - 1]
        /\ IF result.ok
           THEN LET sorted == sort_desc(to_notes(Unwrap(result.val)))
                IN  /\ FEED_CACHE' = [FEED_CACHE EXCEPT ![key] = Some(sorted)]
                    /\ cached_for' = [cached_for EXCEPT
                                         ![key] = FetchedFor(sorted, {FeedType_from_str(key)})]
                    /\ qtQueue' = Append(qtQueue, [kind |-> "loaded", notes |-> sorted,
                                                    feed_name |-> key])
           ELSE /\ qtQueue' = Append(qtQueue, [kind |-> "failed", notes |-> << >>,
                                               feed_name |-> key])
                /\ UNCHANGED <<FEED_CACHE, cached_for>>
        /\ feed_outcome' = [feed_outcome EXCEPT !.worker = WorkerEnd(result)]
        /\ UNCHANGED <<notes, is_loading, current_feed, held_for>>
        /\ UNCHANGED outsideFeedAndHistory

\* the background thread of load_feed panics: it is detached, nothing joins it
\* and no closure is queued
LoadFeedThreadPanics ==
    \E key \in FeedKeys :
        /\ feedThreads[key] > 0
        /\ feedThreads' = [feedThreads EXCEPT ![key] = @ - 1]
        /\ feed_outcome' = [feed_outcome EXCEPT !.worker = "panic"]
        /\ UNCHANGED <<notes, is_loading, current_feed, FEED_CACHE, qtQueue,
                       held_for, cached_for>>
        /\ UNCHANGED outsideFeedAndHistory

\* the Qt thread runs the closure at the head of its queue
QtDeliver ==
    /\ qtQueue # << >>
    /\ notes' = IF Head(qtQueue).kind = "loaded" THEN Head(qtQueue).notes ELSE notes
    /\ is_loading' = FALSE
    /\ held_for' = IF Head(qtQueue).kind = "loaded"
                   THEN FetchedFor(Head(qtQueue).notes, {FeedType_from_str(Head(qtQueue).feed_name)})
                   ELSE held_for
    /\ feed_outcome' = IF Head(qtQueue).kind = "loaded"
                       THEN Outcome("feed_updated", "ok")
                       ELSE Outcome("error_occurred", "error")
    /\ qtQueue' = Tail(qtQueue)
    /\ UNCHANGED <<current_feed, FEED_CACHE, feedThreads, cached_for>>
    /\ UNCHANGED outsideFeedAndHistory

\* load_more, from the call to its return (the fetch thread is joined)
LoadMore ==
    /\ ~is_loading
    /\ notes # << >>
    /\ LET oldest == notes[Len(notes)].created_at
           until == Some(oldest - 1)
       IN  /\ oldest > 0
           /\ \E result \in JoinResults(FetchResults(None, until)) :
                LET fetched == IF result.ok
                               THEN sort_desc(to_notes(Unwrap(result.val)))
                               ELSE << >>
                    new_notes == SelectSeq(fetched, LAMBDA n : n.id \notin ids_of(notes))
                IN  /\ feed_outcome' = Outcome(
                           IF ~result.ok THEN "error_occurred"
                           ELSE IF new_notes = << >> THEN "loading_changed"
                           ELSE "feed_updated", WorkerEnd(result))
                    /\ IF new_notes = << >>
                       THEN UNCHANGED <<notes, FEED_CACHE, held_for, cached_for>>
                       ELSE /\ notes' = notes \o new_notes
                            /\ FEED_CACHE' = [FEED_CACHE EXCEPT
                                                 ![current_feed] = Some(notes \o new_notes)]
                            /\ held_for' = held_for \cup {FeedType_from_str(current_feed)}
                            /\ cached_for' = [cached_for EXCEPT
                                   ![current_feed] = held_for \cup {FeedType_from_str(current_feed)}]
    /\ is_loading' = FALSE
    /\ UNCHANGED <<current_feed, feedThreads, qtQueue>>
    /\ UNCHANGED outsideFeedAndHistory

\* check_for_new, from the call to its return
CheckForNew ==
    /\ ~is_loading
    /\ IF notes = << >>
       THEN load_feed(current_feed, FEED_CACHE)
       ELSE LET newest == notes[1].created_at
            IN  \E result \in JoinResults(FetchResults(None, None)) :
                  LET new_events == IF result.ok
                                    THEN SelectSeq(Unwrap(result.val),
                                            LAMBDA e : created_at(e) > newest)
                                    ELSE << >>
                      new_notes == sort_desc(to_notes(new_events))
                  IN  /\ feed_outcome' = Outcome(
                             IF ~result.ok THEN "error_occurred"
                             ELSE IF new_notes = << >> THEN "new_notes_found"
                             ELSE "feed_updated", WorkerEnd(result))
                      /\ IF new_notes = << >>
                         THEN UNCHANGED <<notes, FEED_CACHE, held_for, cached_for>>
                         ELSE /\ notes' = new_notes \o notes
                              /\ FEED_CACHE' = [FEED_CACHE EXCEPT
                                                   ![current_feed] = Some(new_notes \o notes)]
                              /\ held_for' = held_for \cup {FeedType_from_str(current_feed)}
                              /\ cached_for' = [cached_for EXCEPT
                                     ![current_feed] = held_for \cup {FeedType_from_str(current_feed)}]
                      /\ UNCHANGED <<is_loading, current_feed, feedThreads, qtQueue>>
    /\ UNCHANGED outsideFeedAndHistory

\* refresh: drop the current feed's cache entry, then load_feed
Refresh ==
    /\ load_feed(current_feed, [FEED_CACHE EXCEPT ![current_feed] = None])
    /\ UNCHANGED outsideFeedAndHistory

FeedInit ==
    /\ notes = << >>
    /\ is_loading = FALSE
    /\ current_feed = ""
    /\ FEED_CACHE = [k \in FeedKeys |-> None]
    /\ feedThreads = [k \in FeedKeys |-> 0]
    /\ qtQueue = << >>

\* nothing held, nothing cached
OriginInit ==
    /\ held_for = {}
    /\ cached_for = [k \in FeedKeys |-> {}]

\* nothing emitted yet
OutcomeInit == feed_outcome = Outcome("none", "none")

FeedNext == LoadFeed \/ LoadFeedThread \/ QtDeliver \/ LoadMore \/ CheckForNew \/ Refresh

\* the FeedController with workers that may panic
FeedPanicNext ==
    \/ LoadFeed
    \/ LoadFeedThread
    \/ LoadFeedThreadPanics
    \/ QtDeliver
    \/ LoadMore
    \/ CheckForNew
    \/ Refresh

(***************************************************************************)
(* bridge/notification_bridge.rs                                           *)
(***************************************************************************)

\* background threads fetching plus closures not yet run
MaxNotifInFlight == 2
\* the held list is not followed beyond this length
MaxNotifications == 3

\* texts initialize() is called with: one that parses as a public key, one
\* that does not
PubkeyTexts == {"npub1me", "garbage"}
parse_pubkey(text) == IF text = "npub1me" THEN Some("me") ELSE None

\* the threads spawned by load_notifications / load_more / check_for_new.
\* `held` is the oldest (load_more) or newest (check_for_new) timestamp the
\* controller held when the request was made.
LoadThread == [kind |-> "load", since |-> None, until |-> None, held |-> None]
MoreThread(until_ts) ==
    [kind |-> "more", since |-> None, until |-> Some(until_ts), held |-> Some(until_ts)]
CheckThread(newest_ts) ==
    [kind |-> "check", since |-> Some(newest_ts + 1), until |-> None,
     held |-> Some(newest_ts)]

NotifInFlight == Len(notifThreads) + Len(notifQueue)

\* load_notifications, with the user's public key as given
load_notifications(pubkey) ==
    IF ~IsSome(pubkey)
    THEN UNCHANGED <<notif_is_loading, notifThreads>>
    ELSE /\ NotifInFlight < MaxNotifInFlight
         /\ notif_is_loading' = TRUE
         /\ notifThreads' = Append(notifThreads, LoadThread)

NotifInitialize ==
    \E text \in PubkeyTexts :
        /\ user_pubkey' = parse_pubkey(text)
        /\ load_notifications(parse_pubkey(text))
        /\ UNCHANGED <<notifications, oldest_timestamp, newest_timestamp, is_checking,
                       notifQueue, lastMerge>>
        /\ UNCHANGED outsideNotif

LoadNotifications ==
    /\ load_notifications(user_pubkey)
    /\ UNCHANGED <<notifications, user_pubkey, oldest_timestamp, newest_timestamp,
                   is_checking, notifQueue, lastMerge>>
    /\ UNCHANGED outsideNotif

\* refresh() is load_notifications()
NotifRefresh ==
    /\ load_notifications(user_pubkey)
    /\ UNCHANGED <<notifications, user_pubkey, oldest_timestamp, newest_timestamp,
                   is_checking, notifQueue, lastMerge>>
    /\ UNCHANGED outsideNotif

\* load_more: the request carries until = oldest_timestamp
NotifLoadMore ==
    /\ IsSome(user_pubkey)
    /\ IsSome(oldest_timestamp)
    /\ NotifInFlight < MaxNotifInFlight
    /\ notif_is_loading' = TRUE
    /\ notifThreads' = Append(notifThreads, MoreThread(Unwrap(oldest_timestamp)))
    /\ UNCHANGED <<notifications, user_pubkey, oldest_timestamp, newest_timestamp,
                   is_checking, notifQueue, lastMerge>>
    /\ UNCHANGED outsideNotif

\* check_for_new: the request carries since = newest_timestamp + 1
NotifCheckForNew ==
    /\ ~is_checking
    /\ IsSome(user_pubkey)
    /\ IsSome(newest_timestamp)
    /\ NotifInFlight < MaxNotifInFlight
    /\ is_checking' = TRUE
    /\ notifThreads' = Append(notifThreads, CheckThread(Unwrap(newest_timestamp)))
    /\ UNCHANGED <<notifications, user_pubkey, oldest_timestamp, newest_timestamp,
                   notif_is_loading, notifQueue, lastMerge>>
    /\ UNCHANGED outsideNotif

\* a background thread finishes: fetch, convert, sort, queue the closure
NotifThread ==
    \E i \in 1..Len(notifThreads) :
      LET t == notifThreads[i]
      IN  \E result \in FetchResults(t.since, t.until) :
            /\ notifThreads' = SubSeq(notifThreads, 1, i - 1) \o
                               SubSeq(notifThreads, i + 1, Len(notifThreads))
            /\ notifQueue' = Append(notifQueue,
                   [kind |-> t.kind, held |-> t.held, ok |-> result.ok,
                    list |-> IF result.ok THEN sort_desc(to_notes(Unwrap(result.val)))
                             ELSE << >>])
            /\ UNCHANGED <<notifications, user_pubkey, oldest_timestamp,
                           newest_timestamp, notif_is_loading, is_checking, lastMerge>>
            /\ UNCHANGED outsideNotif

\* the closure of load_notifications
deliver_load(c) ==
    /\ notif_is_loading' = FALSE
    /\ IF c.ok
       THEN /\ notifications' = c.list
            /\ oldest_timestamp' = IF c.list = << >> THEN None
                                   ELSE Some(c.list[Len(c.list)].created_at)
            /\ newest_timestamp' = IF c.list = << >> THEN None
                                   ELSE Some(c.list[1].created_at)
       ELSE UNCHANGED <<notifications, oldest_timestamp, newest_timestamp>>
    /\ UNCHANGED <<is_checking, lastMerge>>

\* the closure of load_more: the page is appended as it came
deliver_more(c) ==
    /\ notif_is_loading' = FALSE
    /\ IF c.ok
       THEN /\ Len(notifications) + Len(c.list) <= MaxNotifications
            /\ notifications' = notifications \o c.list
            /\ oldest_timestamp' = IF c.list = << >> THEN oldest_timestamp
                                   ELSE Some(c.list[Len(c.list)].created_at)
            /\ lastMerge' = [kind |-> "more", held |-> c.held, merged |-> c.list]
       ELSE UNCHANGED <<notifications, oldest_timestamp, lastMerge>>
    /\ UNCHANGED <<newest_timestamp, is_checking>>

\* the closure of check_for_new: the page is deduplicated by id and prepended
deliver_check(c) ==
    LET truly_new == SelectSeq(c.list, LAMBDA n : n.id \notin ids_of(notifications))
    IN  /\ is_checking' = FALSE
        /\ IF c.ok /\ c.list # << >> /\ truly_new # << >>
           THEN /\ notifications' = truly_new \o notifications
                /\ newest_timestamp' =
                       IF ~IsSome(newest_timestamp)
                          \/ c.list[1].created_at > Unwrap(newest_timestamp)
                       THEN Some(c.list[1].created_at)
                       ELSE newest_timestamp
                /\ lastMerge' = [kind |-> "check", held |-> c.held, merged |-> truly_new]
           ELSE UNCHANGED <<notifications, newest_timestamp, lastMerge>>
        /\ UNCHANGED <<oldest_timestamp, notif_is_loading>>

\* the Qt thread runs the closure at the head of its queue
NotifDeliver ==
    /\ notifQueue # << >>
    /\ LET c == Head(notifQueue)
       IN  CASE c.kind = "load" -> deliver_load(c)
             [] c.kind = "more" -> deliver_more(c)
             [] c.kind = "check" -> deliver_check(c)
    /\ notifQueue' = Tail(notifQueue)
    /\ UNCHANGED <<user_pubkey, notifThreads>>
    /\ UNCHANGED outsideNotif

NoMerge == [kind |-> "none", held |-> None, merged |-> << >>]

NotifInit ==
    /\ notifications = << >>
    /\ user_pubkey = None
    /\ oldest_timestamp = None
    /\ newest_timestamp = None
    /\ notif_is_loading = FALSE
    /\ is_checking = FALSE
    /\ notifThreads = << >>
    /\ notifQueue = << >>
    /\ lastMerge = NoMerge

NotifNext ==
    \/ NotifInitialize \/ LoadNotifications \/ NotifRefresh \/ NotifLoadMore
    \/ NotifCheckForNew \/ NotifThread \/ NotifDeliver

(***************************************************************************)
(* nostr/database.rs                                                       *)
(***************************************************************************)

\* the capacity of the memory tier (1000 in the source, scaled down here)
MAX_MEMORY_CACHE_SIZE == 2

\* the events handed to ingest_event, by id
NumDbEvents == 3
DbEventIds == 1..NumDbEvents

\* the threads calling ingest_event
DbThreads == {"t1", "t2"}

\* MemoryCache::has_event
has_event(cache, id) == id \in cache.events

position(order, id) == CHOOSE i \in 1..Len(order) : order[i] = id

remove_at(order, i) == SubSeq(order, 1, i - 1) \o SubSeq(order, i + 1, Len(order))

\* An insert_event that leaves an id's earlier place in event_order alone
insert_event_keeping_old_position(cache, id) ==
    LET evict == /\ Cardinality(cache.events) >= MAX_MEMORY_CACHE_SIZE
                 /\ id \notin cache.events
                 /\ cache.event_order # << >>
        events1 == IF evict THEN cache.events \ {Head(cache.event_order)}
                   ELSE cache.events
        order1 == IF evict THEN Tail(cache.event_order) ELSE cache.event_order
    IN  [events |-> events1 \cup {id}, event_order |-> Append(order1, id)]

\* An insert_event that makes room by dropping the newest entry
insert_event_evicting_newest(cache, id) ==
    LET evict == /\ Cardinality(cache.events) >= MAX_MEMORY_CACHE_SIZE
                 /\ id \notin cache.events
                 /\ cache.event_order # << >>
        n == Len(cache.event_order)
        events1 == IF evict THEN cache.events \ {cache.event_order[n]}
                   ELSE cache.events
        order1 == IF evict THEN SubSeq(cache.event_order, 1, n - 1) ELSE cache.event_order
        order2 == IF \E i \in 1..Len(order1) : order1[i] = id
                  THEN remove_at(order1, position(order1, id))
                  ELSE order1
    IN  [events |-> events1 \cup {id}, event_order |-> Append(order2, id)]

\* MemoryCache::insert_event
insert_event(cache, id) ==
    LET evict == /\ Cardinality(cache.events) >= MAX_MEMORY_CACHE_SIZE
                 /\ id \notin cache.events
                 /\ cache.event_order # << >>
        events1 == IF evict THEN cache.events \ {Head(cache.event_order)}
                   ELSE cache.events
        order1 == IF evict THEN Tail(cache.event_order) ELSE cache.event_order
        order2 == IF \E i \in 1..Len(order1) : order1[i] = id
                  THEN remove_at(order1, position(order1, id))
                  ELSE order1
    IN  [events |-> events1 \cup {id}, event_order |-> Append(order2, id)]

\* known: whether an ingest of the id had completed when the call began
Idle(result) == [pc |-> "idle", id |-> 0, result |-> result, known |-> FALSE]

\* ingest_event up to the end of the read-locked check
IngestCheck ==
    \E t \in DbThreads, id \in DbEventIds :
        /\ ingestThreads[t].pc = "idle"
        /\ ingestThreads' = [ingestThreads EXCEPT ![t] =
               IF has_event(memory_cache, id) THEN Idle("Ok(false)")
               ELSE [pc |-> "checked", id |-> id, result |-> "none",
                     known |-> id \in inserted]]
        /\ lastIngest' = IF has_event(memory_cache, id)
                         THEN [id |-> id, result |-> "Ok(false)", known |-> id \in inserted]
                         ELSE lastIngest
        /\ UNCHANGED <<ndb, memory_cache, inserted, lastInsert, insert_history, profiles>>
        /\ UNCHANGED outsideDb

\* ndb.process_event: the durable store keeps one copy of an id, or fails
IngestProcess ==
    \E t \in DbThreads, ok \in BOOLEAN :
        /\ ingestThreads[t].pc = "checked"
        /\ IF ok
           THEN /\ ndb' = ndb \cup {ingestThreads[t].id}
                /\ ingestThreads' = [ingestThreads EXCEPT ![t].pc = "processed"]
                /\ lastIngest' = lastIngest
           ELSE /\ ndb' = ndb
                /\ ingestThreads' = [ingestThreads EXCEPT ![t] = Idle("Err")]
                /\ lastIngest' = [id |-> ingestThreads[t].id, result |-> "Err",
                                  known |-> ingestThreads[t].known]
        /\ UNCHANGED <<memory_cache, inserted, lastInsert, insert_history, profiles>>
        /\ UNCHANGED outsideDb

\* the write-locked insert_event and the return
IngestInsert ==
    \E t \in DbThreads :
        LET id == ingestThreads[t].id
            cache == insert_event(memory_cache, id)
        IN  /\ ingestThreads[t].pc = "processed"
            /\ memory_cache' = cache
            /\ inserted' = inserted \cup {id}
            /\ lastInsert' = [id |-> id, repeat |-> id \in inserted,
                              held |-> id \in memory_cache.events,
                              before |-> Cardinality(memory_cache.events),
                              after |-> Cardinality(cache.events),
                              evicted |-> memory_cache.events \ cache.events,
                              earliest |-> SelectSeq(insert_history,
                                               LAMBDA e : e \in memory_cache.events)]
            /\ insert_history' = Append(SelectSeq(insert_history, LAMBDA e : e # id), id)
            /\ UNCHANGED profiles
            /\ ingestThreads' = [ingestThreads EXCEPT ![t] = Idle("Ok(true)")]
            /\ lastIngest' = [id |-> id, result |-> "Ok(true)",
                              known |-> ingestThreads[t].known]
            /\ UNCHANGED ndb
            /\ UNCHANGED outsideDb

\* the initial capacity MemoryCache::new gives the profiles map, scaled down
ProfileCapacity == 4
ProfilePubkeys == 1..(ProfileCapacity + 1)

\* the event id of the metadata event of a pubkey
profile_event(pubkey) == 0 - pubkey

\* MemoryCache::insert_profile
insert_profile(cached, pubkey) == cached \cup {pubkey}

\* NostrDbManager::ingest_profile
IngestProfile ==
    \E pubkey \in ProfilePubkeys, is_metadata \in BOOLEAN, processed \in BOOLEAN,
       parsed \in BOOLEAN :
        /\ ndb' = IF is_metadata /\ processed THEN ndb \cup {profile_event(pubkey)} ELSE ndb
        /\ profiles' = IF is_metadata /\ processed /\ parsed
                       THEN insert_profile(profiles, pubkey) ELSE profiles
        /\ UNCHANGED <<memory_cache, ingestThreads, inserted, lastInsert, lastIngest,
                       insert_history>>
        /\ UNCHANGED outsideDb

DbInit ==
    /\ profiles = {}
    /\ ndb = {}
    /\ memory_cache = [events |-> {}, event_order |-> << >>]
    /\ ingestThreads = [t \in DbThreads |-> Idle("none")]
    /\ inserted = {}
    /\ lastInsert = [id |-> 0, repeat |-> FALSE, held |-> FALSE, before |-> 0, after |-> 0,
                     evicted |-> {}, earliest |-> << >>]
    /\ insert_history = << >>
    /\ lastIngest = [id |-> 0, result |-> "none", known |-> FALSE]

DbNext == IngestCheck \/ IngestProcess \/ IngestInsert

\* the threads calling NostrDbManager::global()
NumGlobalThreads == 3
GlobalThreads == 1..NumGlobalThreads

GIdle(result) == [pc |-> "idle", db |-> None, result |-> result]

\* global(): NOSTR_DB.get()
GlobalGet ==
    \E t \in GlobalThreads :
        /\ globalThreads[t].pc = "idle"
        /\ globalThreads' = [globalThreads EXCEPT ![t] =
               IF IsSome(NOSTR_DB) THEN GIdle(Ok(Unwrap(NOSTR_DB)))
               ELSE [pc |-> "init", db |-> None, result |-> Ok(0)]]
        /\ UNCHANGED <<NOSTR_DB, opens, openHandles>>
        /\ UNCHANGED outsideGlobal

\* global(): Self::init()?  Ndb::new opens the store, or fails
GlobalInit ==
    \E t \in GlobalThreads, ok \in BOOLEAN :
        /\ globalThreads[t].pc = "init"
        /\ IF ok
           THEN /\ globalThreads' = [globalThreads EXCEPT ![t].pc = "set",
                                                         ![t].db = Some(t)]
                /\ opens' = opens + 1
                /\ openHandles' = openHandles \cup {t}
           ELSE /\ globalThreads' = [globalThreads EXCEPT
                                        ![t] = GIdle(Err("Failed to open nostrdb"))]
                /\ UNCHANGED <<opens, openHandles>>
        /\ UNCHANGED NOSTR_DB
        /\ UNCHANGED outsideGlobal

\* global(): NOSTR_DB.set(db), return NOSTR_DB.get(); a handle that was not
\* stored is dropped
GlobalSet ==
    \E t \in GlobalThreads :
        LET db == Unwrap(globalThreads[t].db)
            stored == IF IsSome(NOSTR_DB) THEN NOSTR_DB ELSE Some(db)
        IN  /\ globalThreads[t].pc = "set"
            /\ NOSTR_DB' = stored
            /\ openHandles' = IF Unwrap(stored) = db THEN openHandles
                              ELSE openHandles \ {db}
            /\ globalThreads' = [globalThreads EXCEPT ![t] = GIdle(Ok(Unwrap(stored)))]
            /\ UNCHANGED opens
            /\ UNCHANGED outsideGlobal

GlobalInitState ==
    /\ NOSTR_DB = None
    /\ globalThreads = [t \in GlobalThreads |-> GIdle(Ok(0))]
    /\ opens = 0
    /\ openHandles = {}

GlobalNext == GlobalGet \/ GlobalInit \/ GlobalSet

(***************************************************************************)
(* nostr/dm.rs                                                             *)
(***************************************************************************)

Me == "me"
Peers == {"alice", "bob"}

\* ConversationCategory
Categories == {"Regular", "Favorites", "Archive", "Unfiltered"}

\* ConversationCategory::as_str
as_str(category) ==
    CASE category = "Regular" -> "regular"
      [] category = "Favorites" -> "favorites"
      [] category = "Archive" -> "archive"
      [] category = "Unfiltered" -> "unfiltered"

\* ConversationCategory::from_str
from_str(str) ==
    CASE str = "favorites" -> "Favorites"
      [] str = "archive" -> "Archive"
      [] str = "unfiltered" -> "Unfiltered"
      [] OTHER -> "Regular"

Protocols == {"Nip04", "Nip17"}

\* the messages the relays and the user produce: an id fixes the event
DmMessages == {
    [id |-> "m1", sender_pubkey |-> "alice", recipient_pubkey |-> Me,
     content |-> <<"h", "i">>, created_at |-> 1, is_outgoing |-> FALSE, protocol |-> "Nip04"],
    [id |-> "m2", sender_pubkey |-> Me, recipient_pubkey |-> "alice",
     content |-> <<"y", "o">>, created_at |-> 2, is_outgoing |-> TRUE, protocol |-> "Nip04"],
    [id |-> "m3", sender_pubkey |-> "bob", recipient_pubkey |-> Me,
     content |-> <<"g", "m">>, created_at |-> 2, is_outgoing |-> FALSE, protocol |-> "Nip17"],
    [id |-> "m4", sender_pubkey |-> Me, recipient_pubkey |-> "bob",
     content |-> <<"o", "k">>, created_at |-> 1, is_outgoing |-> TRUE, protocol |-> "Nip17"]}

\* DmConversation::new
DmConversationNew(peer_pubkey, protocol) ==
    [peer_pubkey |-> peer_pubkey, last_message |-> None, last_message_at |-> 0,
     protocol |-> protocol, messages |-> << >>, category |-> "Regular",
     has_outgoing |-> FALSE]

\* DmConversation::to_json
to_json(c) ==
    LET effective_category == IF c.category = "Regular" /\ ~c.has_outgoing
                              THEN "Unfiltered" ELSE c.category
    IN  [peerPubkey |-> c.peer_pubkey,
         lastMessage |-> c.last_message,
         lastMessageAt |-> c.last_message_at,
         protocol |-> IF c.protocol = "Nip04" THEN "NIP-04" ELSE "NIP-17",
         category |-> as_str(effective_category),
         hasOutgoing |-> c.has_outgoing]

\* the length of the conversation preview, add_message's argument to truncate_message
PreviewLen == 50

\* truncate_message
truncate_message(content, max_len) ==
    IF Len(content) <= max_len THEN content
    ELSE SubSeq(content, 1, max_len) \o <<".", ".", ".">>

\* the place of m in the ascending list t, behind every message at most as new
RECURSIVE insert_asc(_, _)
insert_asc(m, t) ==
    IF t = << >> THEN <<m>>
    ELSE IF Head(t).created_at <= m.created_at
    THEN <<Head(t)>> \o insert_asc(m, Tail(t))
    ELSE <<m>> \o t

\* messages.sort_by(|a, b| a.created_at.cmp(&b.created_at)): stable, ascending
RECURSIVE sort_asc(_)
sort_asc(s) ==
    IF s = << >> THEN << >>
    ELSE insert_asc(s[Len(s)], sort_asc(SubSeq(s, 1, Len(s) - 1)))

\* DmManager::get_or_create_conversation
get_or_create_conversation(convs, peer_pubkey, protocol) ==
    IF peer_pubkey \in DOMAIN convs THEN convs
    ELSE [p \in DOMAIN convs \cup {peer_pubkey} |->
             IF p = peer_pubkey THEN DmConversationNew(peer_pubkey, protocol)
             ELSE convs[p]]

\* An add_message that does not track outgoing messages
add_message_without_tracking(convs, msg) ==
    LET peer_pubkey == IF msg.is_outgoing THEN msg.recipient_pubkey
                       ELSE msg.sender_pubkey
        created == get_or_create_conversation(convs, peer_pubkey, msg.protocol)
        c0 == created[peer_pubkey]
        c2 == IF msg.created_at > c0.last_message_at
              THEN [c0 EXCEPT !.last_message = Some(truncate_message(msg.content, PreviewLen)),
                              !.last_message_at = msg.created_at]
              ELSE c0
        c3 == IF \E i \in 1..Len(c2.messages) : c2.messages[i].id = msg.id
              THEN c2
              ELSE [c2 EXCEPT !.messages = sort_asc(Append(c2.messages, msg))]
    IN  [created EXCEPT ![peer_pubkey] = c3]

\* An add_message that keeps a message whose id is already held
add_message_keeping_duplicates(convs, msg) ==
    LET peer_pubkey == IF msg.is_outgoing THEN msg.recipient_pubkey
                       ELSE msg.sender_pubkey
        created == get_or_create_conversation(convs, peer_pubkey, msg.protocol)
        c0 == created[peer_pubkey]
        c1 == IF msg.is_outgoing THEN [c0 EXCEPT !.has_outgoing = TRUE] ELSE c0
        c2 == IF msg.created_at > c1.last_message_at
              THEN [c1 EXCEPT !.last_message = Some(truncate_message(msg.content, PreviewLen)),
                              !.last_message_at = msg.created_at]
              ELSE c1
        c3 == [c2 EXCEPT !.messages = sort_asc(Append(c2.messages, msg))]
    IN  [created EXCEPT ![peer_pubkey] = c3]

\* DmManager::add_message
add_message(convs, msg) ==
    LET peer_pubkey == IF msg.is_outgoing THEN msg.recipient_pubkey
                       ELSE msg.sender_pubkey
        created == get_or_create_conversation(convs, peer_pubkey, msg.protocol)
        c0 == created[peer_pubkey]
        c1 == IF msg.is_outgoing THEN [c0 EXCEPT !.has_outgoing = TRUE] ELSE c0
        c2 == IF msg.created_at > c1.last_message_at
              THEN [c1 EXCEPT !.last_message = Some(truncate_message(msg.content, PreviewLen)),
                              !.last_message_at = msg.created_at]
              ELSE c1
        c3 == IF \E i \in 1..Len(c2.messages) : c2.messages[i].id = msg.id
              THEN c2
              ELSE [c2 EXCEPT !.messages = sort_asc(Append(c2.messages, msg))]
    IN  [created EXCEPT ![peer_pubkey] = c3]

\* the categories a file's entries give to the conversations that exist
apply_categories(convs, categories) ==
    [p \in DOMAIN convs |->
        IF p \in DOMAIN categories
        THEN [convs[p] EXCEPT !.category = from_str(categories[p])]
        ELSE convs[p]]

\* DmManager::load_categories
load_categories(convs, file, disk) ==
    IF IsSome(file) /\ IsSome(disk) THEN apply_categories(convs, Unwrap(disk))
    ELSE convs

\* DmManager::apply_saved_categories
apply_saved_categories(convs, file, disk) ==
    IF IsSome(file) /\ IsSome(disk) THEN apply_categories(convs, Unwrap(disk))
    ELSE convs

\* DmManager::save_categories: what is written
save_categories(convs) ==
    LET kept == {p \in DOMAIN convs : convs[p].category # "Regular"}
    IN  [p \in kept |-> as_str(convs[p].category)]

\* DmManager::get_conversations_by_category: the peers of the conversations returned
get_conversations_by_category(convs, category) ==
    {p \in DOMAIN convs :
        LET c == convs[p]
        IN  CASE category = None -> c.has_outgoing /\ c.category = "Regular"
              [] category = Some("Favorites") -> c.category = "Favorites"
              [] category = Some("Archive") -> c.category = "Archive"
              [] category = Some("Unfiltered") ->
                     \/ ~c.has_outgoing /\ c.category = "Regular"
                     \/ c.category = "Unfiltered"
              [] category = Some("Regular") -> c.has_outgoing /\ c.category = "Regular"}

\* A get_category_counts that counts by the stored category alone
get_category_counts_by_stored_category(convs) ==
    LET count(cat) == Cardinality({p \in DOMAIN convs : convs[p].category = cat})
    IN  <<count("Regular"), count("Favorites"), count("Unfiltered"),
          count("Regular"), count("Archive")>>

\* DmManager::get_category_counts: (inbox, favorites, unfiltered, regular, archive)
get_category_counts(convs) ==
    LET count(cat) == Cardinality({p \in DOMAIN convs : convs[p].category = cat})
        never == Cardinality({p \in DOMAIN convs :
                     convs[p].category = "Regular" /\ ~convs[p].has_outgoing})
        replied == Cardinality({p \in DOMAIN convs :
                       convs[p].category = "Regular" /\ convs[p].has_outgoing})
    IN  <<replied, count("Favorites"), count("Unfiltered") + never,
          replied, count("Archive")>>

\* DmManager::set_user_pubkey
SetUserPubkey ==
    \E config_dir \in BOOLEAN, readOk \in BOOLEAN :
        LET file == IF config_dir THEN Some("dm_categories") ELSE categories_file
        IN  /\ dm_user_pubkey' = Some(Me)
            /\ categories_file' = file
            /\ conversations' = IF config_dir /\ readOk
                                THEN load_categories(conversations, file, categories_on_disk)
                                ELSE conversations
            /\ assigned' = IF config_dir /\ readOk THEN assigned ELSE << >>
            /\ UNCHANGED categories_on_disk
            /\ UNCHANGED outsideDm

\* DmManager::apply_saved_categories
ApplySavedCategories ==
    \E readOk \in BOOLEAN :
        /\ conversations' = IF readOk
                            THEN apply_saved_categories(conversations, categories_file,
                                                        categories_on_disk)
                            ELSE conversations
        /\ UNCHANGED <<dm_user_pubkey, categories_file, categories_on_disk, assigned>>
        /\ UNCHANGED outsideDm

\* DmManager::set_category
SetCategory ==
    \E peer_pubkey \in Peers, category \in Categories, writeOk \in BOOLEAN :
        LET convs == [conversations EXCEPT ![peer_pubkey].category = category]
            stored == IsSome(categories_file) /\ writeOk
        IN  /\ peer_pubkey \in DOMAIN conversations
            /\ conversations' = convs
            /\ categories_on_disk' = IF stored THEN Some(save_categories(convs))
                                     ELSE categories_on_disk
            /\ assigned' = IF stored
                           THEN [p \in DOMAIN assigned \cup {peer_pubkey} |->
                                    IF p = peer_pubkey THEN category ELSE assigned[p]]
                           ELSE [p \in DOMAIN assigned \ {peer_pubkey} |-> assigned[p]]
            /\ UNCHANGED <<dm_user_pubkey, categories_file>>
            /\ UNCHANGED outsideDm

\* DmManager::get_or_create_conversation, as start_conversation calls it
GetOrCreateConversation ==
    \E peer_pubkey \in Peers, protocol \in Protocols :
        /\ conversations' = get_or_create_conversation(conversations, peer_pubkey, protocol)
        /\ UNCHANGED <<dm_user_pubkey, categories_file, categories_on_disk, assigned>>
        /\ UNCHANGED outsideDm

\* DmManager::add_message
AddMessage ==
    \E msg \in DmMessages :
        /\ conversations' = add_message(conversations, msg)
        /\ UNCHANGED <<dm_user_pubkey, categories_file, categories_on_disk, assigned>>
        /\ UNCHANGED outsideDm

\* DmManager::clear
DmClear ==
    /\ conversations' = << >>
    /\ dm_user_pubkey' = None
    /\ UNCHANGED <<categories_file, categories_on_disk, assigned>>
    /\ UNCHANGED outsideDm

\* DmManager::new again, when the program restarts: the file stays
DmRecreate ==
    /\ dm_user_pubkey' = None
    /\ conversations' = << >>
    /\ categories_file' = None
    /\ UNCHANGED <<categories_on_disk, assigned>>
    /\ UNCHANGED outsideDm

\* DmManager::new
DmNew ==
    /\ dm_user_pubkey = None
    /\ conversations = << >>
    /\ categories_file = None
    /\ assigned = << >>

\* what the categories file may hold when the program starts
SavedFiles == {None, Some([p \in {"alice"} |-> "favorites"]),
               Some([p \in {"bob"} |-> "starred"])}

MaxDeliveries == 4

\* DmManager::add_message, the ids it was called with kept in call order
Deliver ==
    \E msg \in DmMessages :
        /\ Len(delivered) < MaxDeliveries
        /\ conversations' = add_message(conversations, msg)
        /\ delivered' = Append(delivered, msg.id)
        /\ UNCHANGED <<dm_user_pubkey, categories_file, categories_on_disk, assigned>>
        /\ UNCHANGED outsideDmAndDelivery

DeliveryInit == delivered = << >>

DmNext ==
    \/ SetUserPubkey
    \/ ApplySavedCategories
    \/ SetCategory
    \/ GetOrCreateConversation
    \/ AddMessage
    \/ DmClear
    \/ DmRecreate

(***************************************************************************)
(* Signing: bridge/feed_bridge.rs, bridge/dm_bridge.rs                     *)
(***************************************************************************)

Signers == {"pleb-signer"}
Nsecs == {"nsec1valid", "not-a-key"}

\* SecretKey::parse
ValidNsecs == {"nsec1valid"}

\* "Try signer first", "Use local keys", else: the source that signs, as
\* like_note, react_to_note, repost_note, reply_to_note, post_note,
\* post_note_with_media and send_message resolve it
signer_then_keys(signer, nsec, signOk) ==
    IF IsSome(signer)
    THEN IF signOk THEN Ok("signer") ELSE Err("Signing failed")
    ELSE IF IsSome(nsec)
    THEN IF Unwrap(nsec) \in ValidNsecs THEN Ok("local keys") ELSE Err("Invalid nsec")
    ELSE Err("No signing capability available")

\* zap_note: "Get signing keys"
zap_note_keys(nsec) ==
    IF IsSome(nsec)
    THEN IF Unwrap(nsec) \in ValidNsecs THEN Ok("local keys") ELSE Err("Invalid nsec")
    ELSE Err("No signing keys available")

Signed(op, signer, nsec, result) ==
    [op |-> op, signer |-> signer, nsec |-> nsec, result |-> result]

\* the feed operations that sign with "Try signer first"
FeedOperations == {"like_note", "react_to_note", "repost_note", "reply_to_note",
                   "post_note", "post_note_with_media"}

\* a feed operation up to its signature: relay manager, then the signing source
SignFeedOperation ==
    \E op \in FeedOperations, connected \in BOOLEAN, signOk \in BOOLEAN :
        /\ lastSign' = Signed(op, FEED_SIGNER, FEED_NSEC,
               IF connected THEN signer_then_keys(FEED_SIGNER, FEED_NSEC, signOk)
               ELSE Err("Not connected to relays"))
        /\ UNCHANGED <<FEED_SIGNER, FEED_NSEC, DM_SIGNER, user_nsec>>
        /\ UNCHANGED outsideSign

\* DmController::send_message up to its signature
SendMessage ==
    \E connected \in BOOLEAN, signOk \in BOOLEAN :
        /\ lastSign' = Signed("send_message", DM_SIGNER, user_nsec,
               IF connected THEN signer_then_keys(DM_SIGNER, user_nsec, signOk)
               ELSE Err("Not connected to relays"))
        /\ UNCHANGED <<FEED_SIGNER, FEED_NSEC, DM_SIGNER, user_nsec>>
        /\ UNCHANGED outsideSign

\* FeedController::zap_note up to the keys that sign the zap request
ZapNote ==
    \E nwc_connected \in BOOLEAN :
        /\ lastSign' = Signed("zap_note", FEED_SIGNER, FEED_NSEC,
               IF nwc_connected THEN zap_note_keys(FEED_NSEC)
               ELSE Err("NWC wallet not connected. Please connect your wallet in Settings."))
        /\ UNCHANGED <<FEED_SIGNER, FEED_NSEC, DM_SIGNER, user_nsec>>
        /\ UNCHANGED outsideSign

\* set_feed_signer
SetFeedSigner ==
    \E signer \in {None} \cup {Some(x) : x \in Signers} :
        /\ FEED_SIGNER' = signer
        /\ UNCHANGED <<FEED_NSEC, DM_SIGNER, user_nsec, lastSign>>
        /\ UNCHANGED outsideSign

\* set_feed_nsec
SetFeedNsec ==
    \E nsec \in {None} \cup {Some(x) : x \in Nsecs} :
        /\ FEED_NSEC' = nsec
        /\ UNCHANGED <<FEED_SIGNER, DM_SIGNER, user_nsec, lastSign>>
        /\ UNCHANGED outsideSign

\* set_dm_signer
SetDmSigner ==
    \E signer \in {None} \cup {Some(x) : x \in Signers} :
        /\ DM_SIGNER' = signer
        /\ UNCHANGED <<FEED_SIGNER, FEED_NSEC, user_nsec, lastSign>>
        /\ UNCHANGED outsideSign

\* set_dm_nsec, then DmController::initialize storing the key it finds
StoreDmNsec ==
    \E nsec \in {Some(x) : x \in Nsecs} :
        /\ user_nsec' = nsec
        /\ UNCHANGED <<FEED_SIGNER, FEED_NSEC, DM_SIGNER, lastSign>>
        /\ UNCHANGED outsideSign

SignInit ==
    /\ FEED_SIGNER = None
    /\ FEED_NSEC = None
    /\ DM_SIGNER = None
    /\ user_nsec = None
    /\ lastSign = Signed("none", None, None, Err("No signing capability available"))

SignNext ==
    \/ SignFeedOperation
    \/ SendMessage
    \/ ZapNote
    \/ SetFeedSigner
    \/ SetFeedNsec
    \/ SetDmSigner
    \/ StoreDmNsec

(***************************************************************************)
(* nostr/nwc.rs: a wallet request and the response event it is answered by  *)
(***************************************************************************)
WalletPubkey == "wallet"
Authors == {WalletPubkey, "other"}
MaxRequests == 2
RpcThreads == {"a", "b"}

\* a response event on the wallet relay: its signer, the request id in its "e"
\* tag, and whether its content decrypts between its signer and the client key
WalletResponse(id) == [pubkey |-> WalletPubkey, e |-> id, readable |-> TRUE]
OtherResponses(id) == [pubkey : {"other"}, e : {id}, readable : BOOLEAN]

\* Filter::new().kind(WalletConnectResponse).author(wallet_pubkey).custom_tag(e, event_id).limit(1)
response_filter(event_id) == [author |-> WalletPubkey, e |-> event_id]

filter_match(f, ev) == ev.pubkey = f.author /\ ev.e = f.e

\* client.fetch_events(filter, timeout): the events the relay may send for the
\* subscription before the timeout
fetch_events(f) ==
    IF relay_conforms THEN {ev \in wallet_relay : filter_match(f, ev)}
    ELSE wallet_relay

NoEvent == [pubkey |-> "none", e |-> 0, readable |-> FALSE]

\* the rest of fetch_balance / pay_invoice once fetch_events has returned:
\* events.into_iter().next(), nip04::decrypt with response_event.pubkey
read_response(ev) ==
    IF ev = NoEvent THEN [res |-> Err("No response from NWC"), from |-> NoEvent]
    ELSE IF ~ev.readable THEN [res |-> Err("Failed to decrypt NWC response"), from |-> ev]
    ELSE [res |-> Ok("result"), from |-> ev]

RpcIdle == [pc |-> "idle", event_id |-> 0, res |-> Ok("unit"), from |-> NoEvent]

\* the request event is signed and sent
RpcSend(t) ==
    /\ rpcThreads[t].pc = "idle"
    /\ request_ids < MaxRequests
    /\ request_ids' = request_ids + 1
    /\ \E sent \in BOOLEAN :
           rpcThreads' = [rpcThreads EXCEPT ![t] =
               IF sent
               THEN [RpcIdle EXCEPT !.pc = "waiting", !.event_id = request_ids + 1]
               ELSE [RpcIdle EXCEPT !.pc = "returned", !.event_id = request_ids + 1,
                                    !.res = Err("Failed to send NWC request")]]
    /\ UNCHANGED <<wallet_relay, outsideRpc>>

\* the filter is built, fetch_events returns, the first event is read
RpcFetch(t) ==
    /\ rpcThreads[t].pc = "waiting"
    /\ \E ev \in fetch_events(response_filter(rpcThreads[t].event_id)) \cup {NoEvent} :
           LET r == read_response(ev)
           IN  rpcThreads' = [rpcThreads EXCEPT ![t] =
                   [@ EXCEPT !.pc = "returned", !.res = r.res, !.from = r.from]]
    /\ UNCHANGED <<wallet_relay, request_ids, outsideRpc>>

RpcReturn(t) ==
    /\ rpcThreads[t].pc = "returned"
    /\ rpcThreads' = [rpcThreads EXCEPT ![t] = RpcIdle]
    /\ UNCHANGED <<wallet_relay, request_ids, outsideRpc>>

\* the wallet answers a request it was sent
WalletResponds ==
    \E id \in 1..request_ids :
        /\ wallet_relay' = wallet_relay \cup {WalletResponse(id)}
        /\ UNCHANGED <<rpcThreads, request_ids, outsideRpc>>

\* somebody else publishes a response event that references a request
OtherPublishes ==
    \E id \in 1..request_ids :
    \E ev \in OtherResponses(id) :
        /\ wallet_relay' = wallet_relay \cup {ev}
        /\ UNCHANGED <<rpcThreads, request_ids, outsideRpc>>

RpcInit ==
    /\ wallet_relay = {}
    /\ rpcThreads = [t \in RpcThreads |-> RpcIdle]
    /\ request_ids = 0

RpcNext ==
    \/ \E t \in RpcThreads : RpcSend(t)
    \/ \E t \in RpcThreads : RpcFetch(t)
    \/ \E t \in RpcThreads : RpcReturn(t)
    \/ WalletResponds
    \/ OtherPublishes

(***************************************************************************)
(* BOLT11 amounts: nostr/relay.rs, bridge/notification_bridge.rs            *)
(***************************************************************************)

\* An invoice is its text, character by character.
InvoicePrefixes ==
    { <<"l", "n", "b", "c">>, <<"L", "N", "B", "C">>, <<"l", "n", "t", "b">>,
      <<"l", "n", "b", "c", "r", "t">>, <<"l", "n", "x", "x">>, <<"b", "c">> }
AmountTexts ==
    { << >>, <<"1">>, <<"1", "0">>, <<"1", "0", "0">>, <<"0", "1">>, <<"2", "1">>,
      <<"2", "5", "0", "0">> }
AmountTails ==
    { << >>, <<"m">>, <<"M">>, <<"u">>, <<"n">>, <<"p">>, <<"x">>, <<"u", "1", "p">> }

Digits == {"0", "1", "2", "5"}

\* char::to_digit
DigitValue(c) == CASE c = "0" -> 0 [] c = "1" -> 1 [] c = "2" -> 2 [] c = "5" -> 5

RECURSIVE parse_u64(_)
\* str::parse::<u64> on a text of digits
parse_u64(t) ==
    IF t = << >> THEN 0 ELSE 10 * parse_u64(SubSeq(t, 1, Len(t) - 1)) + DigitValue(t[Len(t)])

\* char::to_lowercase on the letters that occur
LowerChar(c) ==
    CASE c = "L" -> "l" [] c = "N" -> "n" [] c = "B" -> "b" [] c = "C" -> "c"
      [] c = "M" -> "m" [] OTHER -> c

\* str::to_lowercase
to_lowercase(t) == [i \in DOMAIN t |-> LowerChar(t[i])]

\* str::starts_with
starts_with(t, prefix) == Len(t) >= Len(prefix) /\ SubSeq(t, 1, Len(prefix)) = prefix

RECURSIVE leading_digits(_)
\* the digits a text begins with
leading_digits(t) ==
    IF t # << >> /\ Head(t) \in Digits THEN <<Head(t)>> \o leading_digits(Tail(t)) ELSE << >>

\* the character behind the leading digits, if there is one
after_digits(t) ==
    IF Len(leading_digits(t)) < Len(t) THEN Some(t[Len(leading_digits(t)) + 1]) ELSE None

SatsPerBtc == 100000000

\* A u64 of millisats, kept as whole sats and the millisats beyond them
Msats(sats, msats) == [sats |-> sats, msats |-> msats]

\* whole-coin amounts the two-part number has room for
Invoices ==
    { prefix \o amount \o tail :
        prefix \in InvoicePrefixes, amount \in AmountTexts, tail \in AmountTails }
    \ { prefix \o amount \o tail :
        prefix \in InvoicePrefixes, amount \in {<<"1", "0", "0">>, <<"2", "5", "0", "0">>},
        tail \in {<< >>, <<"x">>} }

\* An extract_bolt11_amount that takes every amount for nano-units
extract_bolt11_amount_as_nano(invoice) ==
    LET invoice_lower == to_lowercase(invoice)
        start == IF starts_with(invoice_lower, <<"l", "n", "b", "c">>) THEN 4
                 ELSE IF starts_with(invoice_lower, <<"l", "n", "t", "b">>) THEN 4
                 ELSE 0
        rest == SubSeq(invoice_lower, start + 1, Len(invoice_lower))
        amount_str == leading_digits(rest)
        base_amount == parse_u64(amount_str)
    IN  IF start = 0 \/ amount_str = << >> THEN None
        ELSE Some(Msats(base_amount \div 10, (base_amount % 10) * 100))

\* extract_bolt11_amount: the amount in millisats
extract_bolt11_amount(invoice) ==
    LET invoice_lower == to_lowercase(invoice)
        start == IF starts_with(invoice_lower, <<"l", "n", "b", "c">>) THEN 4
                 ELSE IF starts_with(invoice_lower, <<"l", "n", "t", "b">>) THEN 4
                 ELSE IF starts_with(invoice_lower, <<"l", "n", "b", "c", "r", "t">>) THEN 6
                 ELSE 0
        rest == SubSeq(invoice_lower, start + 1, Len(invoice_lower))
        amount_str == leading_digits(rest)
        next == after_digits(rest)
        multiplier == IF IsSome(next) /\ Unwrap(next) \in {"m", "u", "n", "p"}
                      THEN next ELSE None
        base_amount == parse_u64(amount_str)
    IN  IF start = 0 THEN None
        ELSE IF amount_str = << >> THEN None
        ELSE IF multiplier = Some("m") THEN Some(Msats(base_amount * 100000, 0))
        ELSE IF multiplier = Some("u") THEN Some(Msats(base_amount * 100, 0))
        ELSE IF multiplier = Some("n")
        THEN Some(Msats((base_amount * 100) \div 1000, (base_amount * 100) % 1000))
        ELSE IF multiplier = Some("p")
        THEN Some(Msats((base_amount \div 10) \div 1000, (base_amount \div 10) % 1000))
        ELSE Some(Msats(base_amount * SatsPerBtc, 0))

\* parse_bolt11_amount: the amount in sats
parse_bolt11_amount(bolt11) ==
    LET lower == to_lowercase(bolt11)
        amount_start ==
            IF starts_with(lower, <<"l", "n", "b", "c">>) THEN 4
            ELSE IF starts_with(lower, <<"l", "n", "t", "b">>)
                    \/ starts_with(lower, <<"l", "n", "b", "c", "r", "t">>)
            THEN IF starts_with(lower, <<"l", "n", "b", "c", "r", "t">>) THEN 6 ELSE 4
            ELSE 0
        rest == SubSeq(lower, amount_start + 1, Len(lower))
        num_str == leading_digits(rest)
        multiplier_char == after_digits(rest)
        base == parse_u64(num_str)
    IN  IF amount_start = 0 THEN None
        ELSE IF num_str = << >> THEN None
        ELSE IF multiplier_char = Some("m") THEN Some(base * 100000)
        ELSE IF multiplier_char = Some("u") THEN Some(base * 100)
        ELSE IF multiplier_char = Some("n") THEN Some(base \div 10)
        ELSE IF multiplier_char = Some("p") THEN Some(base \div 10000)
        ELSE Some(base)

NoInvoiceCall == [invoice |-> << >>, stats |-> None, notification |-> None]

\* one invoice handed to both parsers
ParseInvoice ==
    \E invoice \in Invoices :
        /\ invoice_call = NoInvoiceCall
        /\ invoice_call' = [invoice |-> invoice,
                            stats |-> extract_bolt11_amount(invoice),
                            notification |-> parse_bolt11_amount(invoice)]
        /\ UNCHANGED outsideInvoice

InvoiceInit == invoice_call = NoInvoiceCall

(***************************************************************************)
(* nostr/relay.rs: RelayManager and its aggregate fetches                   *)
(***************************************************************************)
RelayOrder == <<"r1", "r2">>
RelayUrls == {RelayOrder[i] : i \in 1..Len(RelayOrder)}

\* the events of a thread, and the event ids an event's "e" tags name, in tag
\* order: each event is a reply to the one before it and, as replies do, also
\* names the event before that one
ThreadIds == {1, 2, 3}
ParentIds(e) == IF e > 2 THEN <<e - 2, e - 1>> ELSE IF e = 2 THEN <<1>> ELSE << >>

Range(f) == {f[i] : i \in DOMAIN f}

\* Events::insert without the id check, as a Vec::push would be
Events_push(events, e) == events \o <<e>>

\* Events::insert: newest first, an id already held is not added again
Events_insert(events, e) ==
    IF \E i \in 1..Len(events) : events[i] = e THEN events
    ELSE LET newer(o) == \/ created_at(o) > created_at(e)
                         \/ created_at(o) = created_at(e) /\ o < e
         IN  SelectSeq(events, newer) \o <<e>> \o SelectSeq(events, LAMBDA o : ~newer(o))

RECURSIVE InsertAll(_, _)
\* for event in events.into_iter() { combined.insert(event) }
InsertAll(combined, events) ==
    IF events = << >> THEN combined
    ELSE InsertAll(Events_insert(combined, Head(events)), Tail(events))

\* what one relay sends for a sub-query: None when it fails or times out
RelayAnswer == {None} \cup {Some(EventsInOrder(S)) : S \in SUBSET EventIds}

\* what a sub-query meets: the client call fails as a whole, or every relay
\* of the pool answers or fails on its own
SubQueries(relays) ==
    {[failed |-> TRUE, by_relay |-> [r \in RelayUrls |-> None]]} \cup
    {[failed |-> FALSE, by_relay |-> f] :
        f \in {g \in [RelayUrls -> RelayAnswer] : \A r \in RelayUrls \ relays : g[r] = None}}

\* the same with one relay heard at most, which sends the events S
PoolAnswers(relays, S) ==
    {[failed |-> TRUE, by_relay |-> [r \in RelayUrls |-> None]]} \cup
    {[failed |-> FALSE,
      by_relay |-> [r \in RelayUrls |->
                       IF r \in relays /\ r = (CHOOSE first \in relays : TRUE)
                       THEN answer ELSE None]] :
        answer \in {None, Some(EventsInOrder(S))}}

\* one answer per event id fetched with fetch_event
EventAnswers(relays, ids) ==
    {f \in [ids -> UNION {PoolAnswers(relays, {p}) : p \in ids}] :
        \A p \in ids : f[p] \in PoolAnswers(relays, {p})}

\* the ids of a stage fetch_thread does not get to: nothing is asked
Unasked(ids) ==
    {[p \in ids |-> [failed |-> TRUE, by_relay |-> [r \in RelayUrls |-> None]]]}

RECURSIVE MergeRelays(_, _)
\* the events of the relays that answered, in one Events collection
MergeRelays(by_relay, i) ==
    IF i = 0 THEN << >>
    ELSE LET sofar == MergeRelays(by_relay, i - 1)
             a == by_relay[RelayOrder[i]]
         IN  IF IsSome(a) THEN InsertAll(sofar, Unwrap(a)) ELSE sofar

\* self.client.fetch_events(filter, DEFAULT_TIMEOUT)
client_fetch_events(q) ==
    IF q.failed THEN Err("client") ELSE Ok(MergeRelays(q.by_relay, Len(RelayOrder)))

\* RelayManager::fetch_following_feed
fetch_following_feed(m, text, repost) ==
    IF m.following = {} THEN [res |-> Ok(<< >>), subs |-> << >>]
    ELSE LET text_result == client_fetch_events(text)
             repost_result == client_fetch_events(repost)
             with_text == IF text_result.ok
                          THEN InsertAll(<< >>, Unwrap(text_result.val)) ELSE << >>
             combined == IF repost_result.ok
                         THEN InsertAll(with_text, Unwrap(repost_result.val)) ELSE with_text
         IN  [res |-> Ok(combined), subs |-> <<text, repost>>]

\* RelayManager::fetch_home_feed
fetch_home_feed(m, posts_q, replies_q) ==
    IF m.following = {} THEN [res |-> Ok(<< >>), subs |-> << >>]
    ELSE LET posts == client_fetch_events(posts_q)
         IN  IF ~posts.ok THEN [res |-> Err("Failed to fetch posts"), subs |-> <<posts_q>>]
             ELSE LET event_ids == Unwrap(posts.val)
                      with_posts == InsertAll(<< >>, Unwrap(posts.val))
                  IN  IF event_ids = << >>
                      THEN [res |-> Ok(with_posts), subs |-> <<posts_q>>]
                      ELSE LET replies == client_fetch_events(replies_q)
                           IN  [res |-> Ok(IF replies.ok
                                           THEN InsertAll(with_posts, Unwrap(replies.val))
                                           ELSE with_posts),
                                subs |-> <<posts_q, replies_q>>]

\* RelayManager::fetch_notifications, the events of the user excluded by the
\* relays' answers already
fetch_notifications(m, mentions, reactions, zaps, reposts) ==
    LET add(combined, q) ==
            LET r == client_fetch_events(q)
            IN  IF r.ok THEN InsertAll(combined, Unwrap(r.val)) ELSE combined
    IN  [res |-> Ok(add(add(add(add(<< >>, mentions), reactions), zaps), reposts)),
         subs |-> <<mentions, reactions, zaps, reposts>>]

\* the notes whose stats are asked for, and the events that refer to them
StatNoteIds == {"n1", "n2"}
ZapReceiptIds == {1, 2, 3}

\* event.tags of a reaction or a zap receipt
Tags(e) ==
    CASE e = 1 -> << <<"e", "n1">>,
                     <<"bolt11", <<"l", "n", "b", "c", "1", "0", "0", "u", "1", "p">> >>,
                     <<"amount", <<"1", "0", "0", "0", "0", "0", "0", "0">> >> >>
      [] e = 2 -> << <<"bolt11", <<"l", "n", "b", "c", "1", "m">> >>, <<"e", "n2">> >>
      [] e = 3 -> << <<"e", "n1">>, <<"e", "n2">>,
                     <<"bolt11", <<"l", "n", "b", "c", "1", "0", "u">> >> >>

\* "Find which note this reaction is for": the first event tag, counted when
\* the note was asked for
RECURSIVE count_reaction(_, _)
count_reaction(stats, tags) ==
    IF tags = << >> THEN stats
    ELSE IF Head(tags)[1] = "e"
    THEN IF Head(tags)[2] \in DOMAIN stats
         THEN [stats EXCEPT ![Head(tags)[2]].reactions = @ + 1]
         ELSE stats
    ELSE count_reaction(stats, Tail(tags))

RECURSIVE process_reactions(_, _)
\* "Process reactions"
process_reactions(stats, reactions) ==
    IF reactions = << >> THEN stats
    ELSE process_reactions(count_reaction(stats, Tags(Head(reactions))), Tail(reactions))

RECURSIVE scan_zap_tags(_, _)
\* "Find which note this zap is for and extract amount"
scan_zap_tags(tags, found) ==
    IF tags = << >> THEN found
    ELSE LET tag == Head(tags)
             parsed == IF tag[1] = "bolt11" THEN extract_bolt11_amount(tag[2]) ELSE None
         IN  scan_zap_tags(Tail(tags),
                 CASE tag[1] = "e" -> [found EXCEPT !.target_note = Some(tag[2])]
                   [] tag[1] = "bolt11" /\ IsSome(parsed) ->
                          [found EXCEPT !.amount_msats = Unwrap(parsed)]
                   [] tag[1] = "amount" ->
                          [found EXCEPT !.amount_msats =
                              Msats(parse_u64(tag[2]) \div 1000, parse_u64(tag[2]) % 1000)]
                   [] OTHER -> found)

RECURSIVE process_zaps(_, _)
\* "Process zaps"
process_zaps(stats, zaps) ==
    IF zaps = << >> THEN stats
    ELSE LET found == scan_zap_tags(Tags(Head(zaps)),
                                    [target_note |-> None, amount_msats |-> Msats(0, 0)])
             counted == IF IsSome(found.target_note) /\ Unwrap(found.target_note) \in DOMAIN stats
                        THEN [stats EXCEPT
                                 ![Unwrap(found.target_note)].zap_total = @ + found.amount_msats.sats,
                                 ![Unwrap(found.target_note)].zap_count = @ + 1]
                        ELSE stats
         IN  process_zaps(counted, Tail(zaps))

\* RelayManager::fetch_note_stats: per note the reactions, the zap total in
\* sats and the zap count
fetch_note_stats(m, note_ids, reactions_q, zaps_q) ==
    IF note_ids = {} THEN [res |-> Ok(<< >>), subs |-> << >>]
    ELSE
      LET reactions == client_fetch_events(reactions_q)
          zaps == client_fetch_events(zaps_q)
          initial == [n \in note_ids |-> [reactions |-> 0, zap_total |-> 0, zap_count |-> 0]]
          with_reactions == IF reactions.ok
                            THEN process_reactions(initial, Unwrap(reactions.val))
                            ELSE initial
          with_zaps == IF zaps.ok THEN process_zaps(with_reactions, Unwrap(zaps.val))
                       ELSE with_reactions
      IN  [res |-> Ok(with_zaps), subs |-> <<reactions_q, zaps_q>>]

\* RelayManager::fetch_event
fetch_event(q) ==
    LET events == client_fetch_events(q)
    IN  IF ~events.ok THEN Err("Failed to fetch event")
        ELSE Ok(IF Unwrap(events.val) = << >> THEN None ELSE Some(Head(Unwrap(events.val))))

\* the notes that carry an event tag for e
ReplyIds(e) == {e + 1, e + 2}

\* A sort that leaves the events as the relays sent them
as_fetched(events) == events

RECURSIVE oldest_first(_)
\* sort_by(|a, b| a.created_at.cmp(&b.created_at)) on events: stable, ascending
oldest_first(events) ==
    IF events = << >> THEN << >>
    ELSE LET rest == oldest_first(SubSeq(events, 1, Len(events) - 1))
             e == events[Len(events)]
             older(o) == created_at(o) <= created_at(e)
         IN  SelectSeq(rest, older) \o <<e>> \o SelectSeq(rest, LAMBDA o : ~older(o))

RECURSIVE FetchEach(_, _)
\* join_all over fetch_event(id), then filter_map(|r| r.ok().flatten()): the
\* events found, in the order of the ids
FetchEach(ids, qs) ==
    IF ids = << >> THEN << >>
    ELSE LET r == fetch_event(qs[Head(ids)])
         IN  (IF r.ok /\ IsSome(Unwrap(r.val)) THEN <<Unwrap(Unwrap(r.val))>> ELSE << >>)
             \o FetchEach(Tail(ids), qs)

RECURSIVE TagsOfAll(_)
\* flat_map over the parents' event tags
TagsOfAll(events) ==
    IF events = << >> THEN << >>
    ELSE ParentIds(Head(events)) \o TagsOfAll(Tail(events))

\* RelayManager::fetch_thread: (parents, target, replies)
fetch_thread(m, target_q, parent_qs, replies_q, grandparent_qs) ==
    LET target == fetch_event(target_q)
    IN  IF ~target.ok THEN [res |-> target, subs |-> <<target_q>>]
        ELSE IF ~IsSome(Unwrap(target.val))
        THEN [res |-> Err("Event not found"), subs |-> <<target_q>>]
        ELSE LET target_event == Unwrap(Unwrap(target.val))
                 parent_ids == ParentIds(target_event)
                 parents == FetchEach(parent_ids, parent_qs)
                 grandparent_ids == TagsOfAll(parents)
                 grandparents == FetchEach(grandparent_ids, grandparent_qs)
                 replies_result == client_fetch_events(replies_q)
                 subs == <<target_q>>
                             \o [i \in DOMAIN parent_ids |-> parent_qs[parent_ids[i]]]
                             \o <<replies_q>>
                             \o [i \in DOMAIN grandparent_ids |->
                                    grandparent_qs[grandparent_ids[i]]]
             IN  IF ~replies_result.ok
                 THEN [res |-> Err("Failed to fetch replies"), subs |-> subs]
                 ELSE [res |-> Ok([parents |-> oldest_first(parents \o grandparents),
                                   target |-> Some(target_event),
                                   replies |-> oldest_first(Unwrap(replies_result.val))]),
                       subs |-> subs]

\* the target query of fetch_thread comes back with the event
TargetFound(target_q) ==
    fetch_event(target_q).ok /\ IsSome(Unwrap(fetch_event(target_q).val))

NoFetch == [op |-> "none", res |-> Ok(<< >>), subs |-> << >>]

\* RelayManager::connect and connect_to: add_relay may fail, which is logged;
\* connected is set whatever was added
RmConnect ==
    \E added \in {{}, RelayUrls} :
        /\ rm' = [rm EXCEPT !.relays = @ \cup added, !.connected = TRUE]
        /\ ever_connected' = TRUE
        /\ lastFetch' = NoFetch
        /\ UNCHANGED outsideRm

\* RelayManager::disconnect
RmDisconnect ==
    /\ rm' = [rm EXCEPT !.connected = FALSE]
    /\ lastFetch' = NoFetch
    /\ UNCHANGED <<ever_connected, outsideRm>>

\* RelayManager::set_following
SetFollowing ==
    \E following \in SUBSET {"alice"} :
        /\ rm' = [rm EXCEPT !.following = following]
        /\ lastFetch' = NoFetch
        /\ UNCHANGED <<ever_connected, outsideRm>>

FetchFollowingFeed ==
    \E text \in SubQueries(rm.relays), repost \in PoolAnswers(rm.relays, EventIds) :
        LET r == fetch_following_feed(rm, text, repost)
        IN  /\ lastFetch' = [op |-> "fetch_following_feed", res |-> r.res, subs |-> r.subs]
            /\ UNCHANGED <<rm, ever_connected, outsideRm>>

FetchHomeFeed ==
    \E posts \in SubQueries(rm.relays), replies \in PoolAnswers(rm.relays, EventIds) :
        LET r == fetch_home_feed(rm, posts, replies)
        IN  /\ lastFetch' = [op |-> "fetch_home_feed", res |-> r.res, subs |-> r.subs]
            /\ UNCHANGED <<rm, ever_connected, outsideRm>>

FetchNotifications ==
    \E mentions \in PoolAnswers(rm.relays, EventIds), reactions \in PoolAnswers(rm.relays, {1}),
       zaps \in PoolAnswers(rm.relays, {2}), reposts \in PoolAnswers(rm.relays, EventIds) :
        LET r == fetch_notifications(rm, mentions, reactions, zaps, reposts)
        IN  /\ lastFetch' = [op |-> "fetch_notifications", res |-> r.res, subs |-> r.subs]
            /\ UNCHANGED <<rm, ever_connected, outsideRm>>

FetchNoteStats ==
    \E note_ids \in SUBSET StatNoteIds, fetched \in SUBSET ZapReceiptIds :
    \E reactions \in PoolAnswers(rm.relays, EventIds), zaps \in PoolAnswers(rm.relays, fetched) :
        LET r == fetch_note_stats(rm, note_ids, reactions, zaps)
        IN  /\ lastFetch' = [op |-> "fetch_note_stats", res |-> r.res, subs |-> r.subs]
            /\ UNCHANGED <<rm, ever_connected, outsideRm>>

FetchThread ==
    \E event_id \in ThreadIds :
    \E target \in PoolAnswers(rm.relays, {event_id}) :
    \E parent \in (IF TargetFound(target)
                   THEN EventAnswers(rm.relays, Range(ParentIds(event_id)))
                   ELSE Unasked(Range(ParentIds(event_id)))),
       replies \in (IF TargetFound(target) THEN PoolAnswers(rm.relays, ReplyIds(event_id))
                    ELSE PoolAnswers({}, {})),
       grandparent \in (IF TargetFound(target)
                        THEN EventAnswers(rm.relays, Range(TagsOfAll(ParentIds(event_id))))
                        ELSE Unasked(Range(TagsOfAll(ParentIds(event_id))))) :
        LET r == fetch_thread(rm, target, parent, replies, grandparent)
        IN  /\ lastFetch' = [op |-> "fetch_thread", res |-> r.res, subs |-> r.subs]
            /\ UNCHANGED <<rm, ever_connected, outsideRm>>

\* the text the view hands to load_thread: an event id, or 0 for a text that
\* is none
NoteIdTexts == ThreadIds \cup {0}

\* FeedController::load_thread, the worker's part: the notes to list
load_thread(manager_set, note_id, fetched) ==
    IF ~manager_set THEN Err("Relay manager not initialized")
    ELSE IF note_id \notin ThreadIds THEN Err("Invalid event ID")
    ELSE IF ~fetched.ok THEN fetched
    ELSE LET thread == Unwrap(fetched.val)
         IN  Ok(to_notes(thread.parents)
                \o (IF IsSome(thread.target) THEN <<from_event(Unwrap(thread.target))>> ELSE << >>)
                \o to_notes(thread.replies))

\* FeedController::load_thread, from the call to thread_loaded or error_occurred
LoadThreadView ==
    \E note_id \in NoteIdTexts, manager_set \in BOOLEAN :
    \E target \in PoolAnswers(rm.relays, {note_id}) :
    \E parent \in (IF TargetFound(target)
                   THEN EventAnswers(rm.relays, Range(ParentIds(note_id)))
                   ELSE Unasked(Range(ParentIds(note_id)))),
       replies \in (IF TargetFound(target) THEN PoolAnswers(rm.relays, ReplyIds(note_id))
                    ELSE PoolAnswers({}, {})),
       grandparent \in (IF TargetFound(target)
                        THEN EventAnswers(rm.relays, Range(TagsOfAll(ParentIds(note_id))))
                        ELSE Unasked(Range(TagsOfAll(ParentIds(note_id))))) :
        LET r == fetch_thread(rm, target, parent, replies, grandparent)
            called == manager_set /\ note_id \in ThreadIds
            result == load_thread(manager_set, note_id, r.res)
        IN  /\ lastFetch' = [op |-> "load_thread",
                             res |-> IF called THEN r.res ELSE result,
                             subs |-> IF called THEN r.subs ELSE << >>]
            /\ thread_notes' = IF result.ok THEN Unwrap(result.val) ELSE thread_notes
            /\ UNCHANGED <<rm, ever_connected>>
            /\ UNCHANGED outsideRmAndThread

\* FeedControllerRust::default
ThreadInit == thread_notes = << >>

\* RelayManager::new
RmNew ==
    /\ rm = [connected |-> FALSE, following |-> {}, relays |-> {}]
    /\ ever_connected = FALSE
    /\ lastFetch = NoFetch

RmNext ==
    \/ RmConnect
    \/ RmDisconnect
    \/ SetFollowing
    \/ FetchFollowingFeed
    \/ FetchHomeFeed
    \/ FetchNotifications
    \/ FetchNoteStats
    \/ FetchThread

ThreadNext ==
    \/ RmConnect
    \/ RmDisconnect
    \/ FetchThread
    \/ LoadThreadView

(***************************************************************************)
(* bridge/dm_bridge.rs: DmController                                        *)
(***************************************************************************)
MaxDmEvents == 1

\* what the user types
Contents == {<<"y", "o">>}

\* the content shown for an event that could not be decrypted
EncryptedPlaceholder == <<"[", "E", "n", "c", "]">>

\* the id and the creation time of the next event to be signed
next_event_id == Cardinality(dm_events) + 1

\* the relay/encryption/signature outcomes a send_message call can meet
SendOutcomes == {"encryption failed", "signing failed", "send failed", "sent"}

\* DmController::send_message with a failing call adding its message all the same
send_message_appending_on_failure(c, convs, client, signer, nsec, content, outcome, now) ==
    LET selected == c.selected_conversation
        event == [id |-> next_event_id, pubkey |-> Me, peer |-> selected,
                  created_at |-> next_event_id, content |-> content]
        msg == [id |-> event.id, sender_pubkey |-> Me, recipient_pubkey |-> selected,
                content |-> content, created_at |-> now, is_outgoing |-> TRUE,
                protocol |-> c.current_protocol]
    IN  IF selected = "" THEN [res |-> Err("No conversation selected"), convs |-> convs, event |-> None]
        ELSE [res |-> IF outcome = "sent" THEN Ok(event.id) ELSE Err("Failed to send"),
              convs |-> add_message(convs, msg),
              event |-> IF outcome = "sent" THEN Some(event) ELSE None]

\* DmController::send_message
send_message(c, convs, client, signer, nsec, content, outcome, now) ==
    LET selected == c.selected_conversation
        event == [id |-> next_event_id, pubkey |-> Me, peer |-> selected,
                  created_at |-> next_event_id, content |-> content]
        msg == [id |-> event.id, sender_pubkey |-> Me, recipient_pubkey |-> selected,
                content |-> content, created_at |-> now, is_outgoing |-> TRUE,
                protocol |-> c.current_protocol]
        failed(e) == [res |-> Err(e), convs |-> convs, event |-> None]
        keys == signer_then_keys(signer, nsec, outcome # "signing failed")
    IN  IF selected = "" THEN failed("No conversation selected")
        ELSE IF ~IsSome(c.user_pubkey) THEN failed("User not initialized")
        ELSE IF ~IsSome(client) THEN failed("Not connected to relays")
        ELSE IF ~IsSome(signer) /\ ~IsSome(nsec) THEN failed("No signing capability available")
        ELSE IF ~IsSome(signer) /\ Unwrap(nsec) \notin ValidNsecs THEN failed("Invalid nsec")
        ELSE IF outcome = "encryption failed" THEN failed("Encryption failed")
        ELSE IF ~keys.ok THEN failed(keys.err)
        ELSE IF outcome = "send failed" THEN failed("Failed to send")
        ELSE [res |-> Ok(event.id), convs |-> add_message(convs, msg), event |-> Some(event)]

RECURSIVE add_events(_, _, _)
\* load_conversations: every fetched event becomes a NIP-04 message of its
\* peer's conversation
add_events(convs, events, decrypted) ==
    IF events = {} THEN convs
    ELSE LET event == CHOOSE e \in events : \A o \in events : e.id <= o.id
             is_outgoing == event.pubkey = Me
             created == get_or_create_conversation(convs, event.peer, "Nip04")
             msg == [id |-> event.id, sender_pubkey |-> event.pubkey,
                     recipient_pubkey |-> IF is_outgoing THEN event.peer ELSE Me,
                     content |-> IF decrypted THEN event.content ELSE EncryptedPlaceholder,
                     created_at |-> event.created_at, is_outgoing |-> is_outgoing,
                     protocol |-> "Nip04"]
         IN  add_events(add_message(created, msg), events \ {event}, decrypted)

NoSend == [content |-> << >>, peer |-> "", res |-> Err("none"), id |-> 0, appended |-> FALSE,
           echoed |-> FALSE]

\* DmController::initialize
DmcInitialize ==
    \E config_dir \in BOOLEAN, readOk \in BOOLEAN :
        LET file == IF config_dir THEN Some("dm_categories") ELSE categories_file
        IN  /\ ~IsSome(dmc.user_pubkey)
            /\ dmc' = [dmc EXCEPT !.user_pubkey = Some(Me)]
            /\ dm_user_pubkey' = Some(Me)
            /\ categories_file' = file
            /\ conversations' = IF config_dir /\ readOk
                                THEN load_categories(conversations, file, categories_on_disk)
                                ELSE conversations
            /\ assigned' = IF config_dir /\ readOk THEN assigned ELSE << >>
            /\ DM_CLIENT' = Some("client")
            /\ UNCHANGED <<categories_on_disk, dm_events, lastSend>>
            /\ UNCHANGED outsideDmAndDmc

\* DmController::load_conversations, and refresh
LoadConversations ==
    \E fetched \in SUBSET dm_events, fetchOk \in BOOLEAN, decrypted \in BOOLEAN :
        /\ conversations' =
               IF IsSome(dmc.user_pubkey) /\ IsSome(DM_CLIENT) /\ fetchOk
               THEN add_events(conversations, fetched,
                               decrypted /\ (IsSome(DM_SIGNER) \/ IsSome(user_nsec)))
               ELSE conversations
        /\ lastSend' = [lastSend EXCEPT !.echoed =
               @ \/ /\ IsSome(dmc.user_pubkey) /\ IsSome(DM_CLIENT) /\ fetchOk
                    /\ lastSend.res.ok
                    /\ \E e \in fetched : e.id = lastSend.id]
        /\ UNCHANGED <<dmc, DM_CLIENT, dm_events>>
        /\ UNCHANGED <<dm_user_pubkey, categories_file, categories_on_disk, assigned>>
        /\ UNCHANGED outsideDmAndDmc

\* DmController::select_conversation
SelectConversation ==
    \E peer_pubkey \in Peers :
        /\ dmc' = [dmc EXCEPT !.selected_conversation = peer_pubkey,
                              !.current_protocol =
                                  IF peer_pubkey \in DOMAIN conversations
                                  THEN conversations[peer_pubkey].protocol ELSE @]
        /\ UNCHANGED <<DM_CLIENT, dm_events, lastSend>>
        /\ UNCHANGED outsideDmc

\* DmController::start_conversation
StartConversation ==
    \E pubkey \in Peers \cup {"not-a-pubkey"} :
        /\ IF pubkey \in Peers
           THEN /\ conversations' = get_or_create_conversation(conversations, pubkey,
                                                               dmc.current_protocol)
                /\ dmc' = [dmc EXCEPT !.selected_conversation = pubkey]
           ELSE UNCHANGED <<conversations, dmc>>
        /\ UNCHANGED <<DM_CLIENT, dm_events, lastSend>>
        /\ UNCHANGED <<dm_user_pubkey, categories_file, categories_on_disk, assigned>>
        /\ UNCHANGED outsideDmAndDmc

\* DmController::toggle_protocol
ToggleProtocol ==
    LET toggled == IF dmc.current_protocol = "Nip04" THEN "Nip17" ELSE "Nip04"
        selected == dmc.selected_conversation
    IN  /\ dmc' = [dmc EXCEPT !.current_protocol = toggled]
        /\ chosen' = IF selected = "" THEN chosen
                      ELSE [p \in DOMAIN chosen \cup {selected} |->
                               IF p = selected THEN toggled ELSE chosen[p]]
        /\ UNCHANGED <<DM_CLIENT, dm_events, lastSend>>
        /\ UNCHANGED outsideDmcAndChoice

\* DmController::send_message, from entry to return
DmcSendMessage ==
    \E content \in Contents, outcome \in SendOutcomes :
    \E now \in {next_event_id, next_event_id + 1} :
        LET r == send_message(dmc, conversations, DM_CLIENT, DM_SIGNER, user_nsec,
                              content, outcome, now)
        IN  /\ Cardinality(dm_events) < MaxDmEvents
            /\ conversations' = r.convs
            /\ dm_events' = IF IsSome(r.event) THEN dm_events \cup {Unwrap(r.event)}
                            ELSE dm_events
            /\ lastSend' = [content |-> content, peer |-> dmc.selected_conversation,
                            res |-> r.res, id |-> next_event_id,
                            appended |-> r.convs # conversations, echoed |-> FALSE]
            /\ UNCHANGED <<dmc, DM_CLIENT>>
            /\ UNCHANGED <<dm_user_pubkey, categories_file, categories_on_disk, assigned>>
            /\ UNCHANGED outsideDmAndDmc

\* a peer publishes a message to the user
PeerSends ==
    \E peer \in Peers :
        /\ Cardinality(dm_events) < MaxDmEvents
        /\ dm_events' = dm_events \cup
               {[id |-> next_event_id, pubkey |-> peer, peer |-> peer,
                 created_at |-> next_event_id, content |-> <<"h", "i">>]}
        /\ UNCHANGED <<dmc, DM_CLIENT, lastSend>>
        /\ UNCHANGED outsideDmc

\* DmControllerRust::default
DmcInit ==
    /\ dmc = [user_pubkey |-> None, selected_conversation |-> "", current_protocol |-> "Nip04"]
    /\ DM_CLIENT = None
    /\ dm_events = {}
    /\ lastSend = NoSend

ChoiceInit == chosen = << >>

DmcNext ==
    \/ DmcInitialize
    \/ LoadConversations
    \/ SelectConversation
    \/ DmcSendMessage
    \/ PeerSends
    \/ SetDmSigner

ProtocolNext ==
    \/ DmcInitialize
    \/ LoadConversations
    \/ SelectConversation
    \/ StartConversation
    \/ ToggleProtocol
    \/ PeerSends

(***************************************************************************)
(* Specifications: one per subsystem, the others at rest                   *)
(***************************************************************************)

(***************************************************************************)
(* bridge/feed_bridge.rs: FeedController::fetch_note_stats                 *)
(***************************************************************************)

\* the texts the view passes as note id: two event ids and one that is not hex
StatsIdTexts == StatNoteIds \cup {"zz"}

StatsJson(reactions, zapAmount, zapCount) ==
    [reactions |-> reactions, zapAmount |-> zapAmount, zapCount |-> zapCount,
     loading |-> FALSE]

\* {"reactions":{},"zapAmount":0,"zapCount":0}
EmptyStats == StatsJson(0, 0, 0)

\* {"reactions":{},"zapAmount":0,"zapCount":0,"loading":true}
LoadingStats == [EmptyStats EXCEPT !.loading = TRUE]

\* what manager.fetch_note_stats can hold for one note
FetchedStats == {EmptyStats, StatsJson(1, 1000, 1)}

\* the worker's async block: id, relay manager, fetch, JSON text
stats_worker(note_id, manager_set, stats) ==
    IF note_id \notin StatNoteIds THEN Err("Invalid event ID")
    ELSE IF ~manager_set THEN Err("Not connected to relays")
    ELSE Ok(stats)

StatsIdle == [pc |-> "idle", id |-> "", ret |-> EmptyStats]

\* fetch_note_stats, "Check cache first"
StatsCheckCache ==
    \E note_id \in StatsIdTexts :
        /\ statsCall.pc = "idle"
        /\ statsCall' = IF note_id \in DOMAIN NOTE_STATS_CACHE
                        THEN [pc |-> "idle", id |-> note_id, ret |-> NOTE_STATS_CACHE[note_id]]
                        ELSE [pc |-> "check_pending", id |-> note_id, ret |-> EmptyStats]
        /\ UNCHANGED <<NOTE_STATS_CACHE, PENDING_STATS, statsThreads, stats_started, stats_failed>>
        /\ UNCHANGED outsideStats

\* fetch_note_stats, "Check if already pending"
StatsCheckPending ==
    /\ statsCall.pc = "check_pending"
    /\ statsCall' = IF statsCall.id \in PENDING_STATS
                    THEN [statsCall EXCEPT !.pc = "idle", !.ret = LoadingStats]
                    ELSE [statsCall EXCEPT !.pc = "mark_pending"]
    /\ UNCHANGED <<NOTE_STATS_CACHE, PENDING_STATS, statsThreads, stats_started, stats_failed>>
    /\ UNCHANGED outsideStats

\* how many fetches have been spawned for a note id so far
StartedFor(note_id) == Cardinality({f \in stats_started : f.id = note_id})

\* fetch_note_stats, "Mark as pending", the spawn and the loading text returned
StatsSpawn ==
    /\ statsCall.pc = "mark_pending"
    /\ PENDING_STATS' = PENDING_STATS \cup {statsCall.id}
    /\ statsThreads' = statsThreads \cup
           {[id |-> statsCall.id, pc |-> "fetch", result |-> Ok(EmptyStats),
             k |-> StartedFor(statsCall.id) + 1]}
    /\ stats_started' = stats_started \cup
           {[id |-> statsCall.id, k |-> StartedFor(statsCall.id) + 1,
             cached |-> statsCall.id \in DOMAIN NOTE_STATS_CACHE,
             in_flight |-> \E t \in statsThreads : t.id = statsCall.id]}
    /\ statsCall' = [statsCall EXCEPT !.pc = "idle", !.ret = LoadingStats]
    /\ UNCHANGED <<NOTE_STATS_CACHE, stats_failed>>
    /\ UNCHANGED outsideStats

\* the spawned closure up to `result`
StatsFetch ==
    \E t \in statsThreads, manager_set \in BOOLEAN, stats \in FetchedStats :
        /\ t.pc = "fetch"
        /\ statsThreads' = (statsThreads \ {t}) \cup
               {[t EXCEPT !.pc = "cache",
                          !.result = stats_worker(t.id, manager_set, stats)]}
        /\ UNCHANGED <<NOTE_STATS_CACHE, PENDING_STATS, statsCall, stats_started, stats_failed>>
        /\ UNCHANGED outsideStats

\* the spawned closure, "Cache the result"
StatsCache ==
    \E t \in statsThreads :
        /\ t.pc = "cache"
        /\ NOTE_STATS_CACHE' =
               [n \in DOMAIN NOTE_STATS_CACHE \cup {t.id} |->
                   IF n = t.id
                   THEN (IF t.result.ok THEN Unwrap(t.result.val) ELSE EmptyStats)
                   ELSE NOTE_STATS_CACHE[n]]
        /\ stats_failed' = IF t.result.ok THEN stats_failed ELSE stats_failed \cup {t.id}
        /\ statsThreads' = (statsThreads \ {t}) \cup {[t EXCEPT !.pc = "remove"]}
        /\ UNCHANGED <<PENDING_STATS, statsCall, stats_started>>
        /\ UNCHANGED outsideStats

\* the spawned closure, "Remove from pending", and its end
StatsDone ==
    \E t \in statsThreads :
        /\ t.pc = "remove"
        /\ PENDING_STATS' = PENDING_STATS \ {t.id}
        /\ statsThreads' = statsThreads \ {t}
        /\ UNCHANGED <<NOTE_STATS_CACHE, statsCall, stats_started, stats_failed>>
        /\ UNCHANGED outsideStats

\* the caches as lazy_static builds them
StatsInit ==
    /\ NOTE_STATS_CACHE = << >>
    /\ PENDING_STATS = {}
    /\ statsThreads = {}
    /\ statsCall = StatsIdle
    /\ stats_started = {}
    /\ stats_failed = {}

StatsNext ==
    \/ StatsCheckCache
    \/ StatsCheckPending
    \/ StatsSpawn
    \/ StatsFetch
    \/ StatsCache
    \/ StatsDone

(***************************************************************************)
(* bridge/app_bridge.rs: AppController                                     *)
(***************************************************************************)

AppNew == [logged_in |-> FALSE, nwc_connected |-> FALSE, is_loading |-> FALSE,
           error_message |-> ""]

\* parse_nsec
parse_nsec(nsec) == IF nsec \in ValidNsecs THEN Ok("npub") ELSE Err("Invalid nsec")

\* check_signer: a signer that is found and unlocked is stored
CheckSigner ==
    \E ready \in BOOLEAN :
        /\ SIGNER_CLIENT' = IF ready THEN Some("pleb-signer") ELSE SIGNER_CLIENT
        /\ UNCHANGED <<NWC_MANAGER, GLOBAL_NWC_MANAGER, DM_NSEC, app, session>>
        /\ UNCHANGED outsideApp

\* login_with_signer
LoginWithSigner ==
    \E key_ok \in BOOLEAN :
        LET result == IF ~IsSome(SIGNER_CLIENT) THEN Err("Signer not connected")
                      ELSE IF key_ok THEN Ok("npub")
                      ELSE Err("Failed to get public key")
        IN  /\ app' = IF result.ok
                      THEN [app EXCEPT !.logged_in = TRUE, !.is_loading = FALSE,
                                       !.error_message = ""]
                      ELSE [app EXCEPT !.is_loading = FALSE, !.error_message = result.err]
            /\ session' = IF result.ok THEN "signer" ELSE session
            /\ UNCHANGED <<NWC_MANAGER, GLOBAL_NWC_MANAGER, SIGNER_CLIENT, DM_NSEC>>
            /\ UNCHANGED outsideApp

\* login_with_nsec
LoginWithNsec ==
    \E nsec \in Nsecs :
        LET result == parse_nsec(nsec)
        IN  /\ app' = IF result.ok
                      THEN [app EXCEPT !.logged_in = TRUE, !.is_loading = FALSE,
                                       !.error_message = ""]
                      ELSE [app EXCEPT !.is_loading = FALSE, !.error_message = result.err]
            /\ session' = IF result.ok THEN "nsec" ELSE session
            /\ FEED_NSEC' = IF result.ok THEN Some(nsec) ELSE FEED_NSEC
            /\ DM_NSEC' = IF result.ok THEN Some(nsec) ELSE DM_NSEC
            /\ UNCHANGED <<NWC_MANAGER, GLOBAL_NWC_MANAGER, SIGNER_CLIENT>>
            /\ UNCHANGED <<FEED_SIGNER, DM_SIGNER, user_nsec, lastSign>>
            /\ UNCHANGED outsideAppAndSign

\* DmController::initialize, "Store nsec for encryption"
DmStoreNsec ==
    /\ user_nsec' = IF IsSome(DM_NSEC) THEN DM_NSEC ELSE user_nsec
    /\ UNCHANGED <<FEED_SIGNER, FEED_NSEC, DM_SIGNER, lastSign>>
    /\ UNCHANGED appVars
    /\ UNCHANGED outsideAppAndSign

\* logout
Logout ==
    /\ SIGNER_CLIENT' = None
    /\ app' = [app EXCEPT !.logged_in = FALSE]
    /\ session' = "none"
    /\ UNCHANGED <<NWC_MANAGER, GLOBAL_NWC_MANAGER, DM_NSEC>>
    /\ UNCHANGED outsideApp

\* connect_nwc: the worker connects NWC_MANAGER and is joined
ConnectNwc ==
    \E uri \in Uris :
    LET asks == /\ from_uri(uri).ok
                /\ Unwrap(from_uri(uri).val).relay_url \in ValidRelayUrls
    IN
    \E o \in (IF asks THEN {"result", "no_response"} ELSE {"no_response"}) :
    \E b \in (IF HasResult(o) THEN Balances ELSE {0}) :
        LET r == connect(NWC_MANAGER, uri, o, b)
        IN  /\ NWC_MANAGER' = r.m
            /\ app' = IF r.res.ok
                      THEN [app EXCEPT !.nwc_connected = TRUE, !.is_loading = FALSE]
                      ELSE [app EXCEPT !.nwc_connected = FALSE, !.is_loading = FALSE,
                                       !.error_message = "NWC error"]
            /\ UNCHANGED <<GLOBAL_NWC_MANAGER, SIGNER_CLIENT, DM_NSEC, session>>
            /\ UNCHANGED outsideApp

\* connect_nwc when the worker panics before it has touched the manager
ConnectNwcPanics ==
    /\ app' = [app EXCEPT !.nwc_connected = FALSE, !.is_loading = FALSE,
                          !.error_message = "NWC connection failed"]
    /\ UNCHANGED <<NWC_MANAGER, GLOBAL_NWC_MANAGER, SIGNER_CLIENT, DM_NSEC, session>>
    /\ UNCHANGED outsideApp

\* disconnect_nwc
DisconnectNwc ==
    /\ NWC_MANAGER' = disconnect(NWC_MANAGER)
    /\ app' = [app EXCEPT !.nwc_connected = FALSE]
    /\ UNCHANGED <<GLOBAL_NWC_MANAGER, SIGNER_CLIENT, DM_NSEC, session>>
    /\ UNCHANGED outsideApp

\* FeedController::zap_note up to the keys, with the wallet it locks
ZapNoteWithWallet ==
    /\ lastSign' = Signed("zap_note", FEED_SIGNER, FEED_NSEC,
           IF is_connected(GLOBAL_NWC_MANAGER) THEN zap_note_keys(FEED_NSEC)
           ELSE Err("NWC wallet not connected. Please connect your wallet in Settings."))
    /\ UNCHANGED <<FEED_SIGNER, FEED_NSEC, DM_SIGNER, user_nsec>>
    /\ UNCHANGED outsideSign

\* lazy_static: both managers are NwcManager::new()
AppInit ==
    /\ NWC_MANAGER = NwcNew
    /\ GLOBAL_NWC_MANAGER = NwcNew
    /\ SIGNER_CLIENT = None
    /\ DM_NSEC = None
    /\ app = AppNew
    /\ session = "none"

AppNext ==
    \/ CheckSigner
    \/ LoginWithSigner
    \/ LoginWithNsec
    \/ DmStoreNsec
    \/ Logout
    \/ ConnectNwc
    \/ ConnectNwcPanics
    \/ DisconnectNwc
    \/ ZapNoteWithWallet
    \/ SignFeedOperation
    \/ SendMessage

Rest == WalletInit /\ FeedInit /\ NotifInit /\ DbInit /\ GlobalInitState /\ DmNew /\ SignInit /\ RpcInit /\ RmNew /\ DmcInit /\ DeliveryInit /\ ChoiceInit /\ UriInit /\ InvoiceInit /\ ThreadInit /\ StatsInit /\ OriginInit /\ OutcomeInit /\ AppInit

Init == Rest /\ relay_conforms = FALSE /\ categories_on_disk = None

Next == WalletNext

Spec == Init /\ [][Next]_vars

InitFeed == Rest /\ relay_conforms \in BOOLEAN /\ categories_on_disk = None

SpecFeed == InitFeed /\ [][FeedNext]_vars

InitNotif == Rest /\ relay_conforms \in BOOLEAN /\ categories_on_disk = None

SpecNotif == InitNotif /\ [][NotifNext]_vars

SpecDb == Init /\ [][DbNext]_vars

SpecProfiles == Init /\ [][IngestProfile]_vars

SpecGlobal == Init /\ [][GlobalNext]_vars

InitDm == Rest /\ relay_conforms = FALSE /\ categories_on_disk \in SavedFiles

SpecDm == InitDm /\ [][DmNext]_vars

SpecSign == Init /\ [][SignNext]_vars

InitRpc == Rest /\ relay_conforms \in BOOLEAN /\ categories_on_disk = None

SpecRpc == InitRpc /\ [][RpcNext]_vars

SpecRm == Init /\ [][RmNext]_vars

SpecDmc == Init /\ [][DmcNext]_vars

SpecProtocol == Init /\ [][ProtocolNext]_vars

SpecUri == Init /\ [][ParseBuiltUri]_vars

SpecInvoice == Init /\ [][ParseInvoice]_vars

SpecThread == Init /\ [][ThreadNext]_vars

SpecStats == Init /\ [][StatsNext]_vars

SpecFeedPanic == InitFeed /\ [][FeedPanicNext]_vars

\* every spawned thread runs to its end, one way or the other, and the Qt event
\* loop runs every closure queued to it; the view is free to call or not
SpecFeedLive ==
    /\ InitFeed /\ [][FeedPanicNext]_vars
    /\ WF_vars(LoadFeedThread \/ LoadFeedThreadPanics)
    /\ WF_vars(QtDeliver)

\* the same when no worker panics
SpecFeedLiveNoPanic ==
    /\ InitFeed /\ [][FeedNext]_vars
    /\ WF_vars(LoadFeedThread)
    /\ WF_vars(QtDeliver)

SpecApp == Init /\ [][AppNext]_vars

SpecDelivery == Init /\ [][Deliver]_vars

(***************************************************************************)
(* Properties of the wallet-connect client and the zap saga                *)
(***************************************************************************)

CallbackRequests == {"GET callback amount", "GET callback amount nostr"}

\* the last call was zap(), it resolved a descriptor, and its millisat amount
\* lies outside the descriptor's [min_sendable, max_sendable]
ZapOutOfBounds ==
    /\ lastCall.op = "zap"
    /\ IsSome(zapArgs.resolved)
    /\ \/ zapArgs.amount_msats < Unwrap(zapArgs.resolved).min_sendable
       \/ zapArgs.amount_msats > Unwrap(zapArgs.resolved).max_sendable

\* C1: a zap whose millisat amount is below the resolved descriptor's minimum
\* or above its maximum fails, and it issues neither an HTTP request to the
\* invoice callback nor a payment request to the wallet.
C1_OutOfBoundsZapAsksNothing ==
    ZapOutOfBounds =>
        /\ ~lastCall.res.ok
        /\ \A i \in 1..Len(zapLog) :
               zapLog[i] \notin CallbackRequests \cup {"NWC pay_invoice"}

\* C1 witness: with a connected wallet, a zap below the minimum has returned
\* after the descriptor lookup alone
C1_Witness ==
    /\ ZapOutOfBounds
    /\ zapArgs.amount_msats < Unwrap(zapArgs.resolved).min_sendable
    /\ is_connected(nwc)
    /\ zapLog = <<"GET lnurlp">>
    /\ lastCall.res = Err("Amount is below minimum")

\* C2: when connect(uri) has returned the state is Connected if it succeeded
\* and Error if it failed; it is never left at Connecting.
C2_ConnectSettles ==
    lastCall.op = "connect" =>
        /\ nwc.state # "Connecting"
        /\ lastCall.res.ok => nwc.state = "Connected"
        /\ ~lastCall.res.ok => nwc.state = "Error"

(***************************************************************************)
(* Properties of the feed controller                                       *)
(***************************************************************************)

NoDuplicateIds(list) ==
    \A i, j \in 1..Len(list) : list[i].id = list[j].id => i = j

SortedDescending(list) ==
    \A i, j \in 1..Len(list) : i < j => list[i].created_at >= list[j].created_at

\* C3: after any sequence of load_feed, load_more, check_for_new and refresh
\* the held note list has no two entries with the same event id.
C3_FeedNoDuplicateIds == NoDuplicateIds(notes)

\* C4: after any sequence of load_feed, load_more and check_for_new the held
\* note list is sorted descending by creation time.
C4_FeedSortedDescending == SortedDescending(notes)

\* With relays that answer only with events matching the filter, the held
\* list stays sorted and free of duplicates.
FeedOrderedWhenRelaysConform ==
    relay_conforms => NoDuplicateIds(notes) /\ SortedDescending(notes)

(***************************************************************************)
(* Properties of the notification controller                               *)
(***************************************************************************)

\* C5: pagination admits only notes strictly outside the held time range,
\* whatever the relays return: a load_more made with held oldest timestamp T
\* requests until = T - 1 and merges only notes created at or before T - 1; a
\* check_for_new made with held newest timestamp T merges only notes created at
\* or after T + 1.
C5_PaginationStrictlyOutside ==
    /\ \A i \in 1..Len(notifThreads) :
           notifThreads[i].kind = "more" =>
               notifThreads[i].until = Some(Unwrap(notifThreads[i].held) - 1)
    /\ lastMerge.kind = "more" =>
           \A i \in 1..Len(lastMerge.merged) :
               lastMerge.merged[i].created_at <= Unwrap(lastMerge.held) - 1
    /\ lastMerge.kind = "check" =>
           \A i \in 1..Len(lastMerge.merged) :
               lastMerge.merged[i].created_at >= Unwrap(lastMerge.held) + 1

\* C6: after any sequence of load_notifications, load_more, check_for_new and
\* refresh, overlapping load_more calls included, the held notification list
\* has no two entries with the same event id.
C6_NotificationsNoDuplicateIds == NoDuplicateIds(notifications)

(***************************************************************************)
(* Properties of the local cache store                                     *)
(***************************************************************************)

\* C7: ingesting an event whose id has already been ingested leaves the
\* cache's event count unchanged and creates no second entry for that id, for
\* any sequence of ingests and for threads ingesting the same id at once: an id
\* has at most one place in the memory tier, the order list and the id set
\* agree, and an insert of an id that was inserted before leaves the count as
\* it was.
C7_ReingestIsIdempotent ==
    /\ \A i, j \in 1..Len(memory_cache.event_order) :
           memory_cache.event_order[i] = memory_cache.event_order[j] => i = j
    /\ {memory_cache.event_order[i] : i \in 1..Len(memory_cache.event_order)}
           = memory_cache.events
    /\ lastInsert.repeat => lastInsert.after = lastInsert.before
    /\ inserted \subseteq ndb

\* C7 witness: the id that was inserted last was already held, because another
\* thread had passed the check for the same id before either inserted
C7_Witness ==
    /\ lastInsert.repeat
    /\ lastInsert.held
    /\ lastInsert.id \in memory_cache.events
    /\ Cardinality(memory_cache.events) = lastInsert.before

\* C8: under any interleaving of first-use calls to global() the durable store
\* is opened exactly once and every caller receives the same instance.
C8_OpenedExactlyOnce ==
    /\ opens <= 1
    /\ Cardinality(openHandles) <= 1
    /\ \A t \in GlobalThreads :
           globalThreads[t].result.ok /\ globalThreads[t].result # Ok(0) =>
               globalThreads[t].result = Ok(Unwrap(NOSTR_DB))

(***************************************************************************)
(* Properties of the direct-message conversations                          *)
(***************************************************************************)

OutgoingMessages(c) == {i \in 1..Len(c.messages) : c.messages[i].is_outgoing}

\* the conversations to_json reports under a category string
ReportedAs(str) == {p \in DOMAIN conversations : to_json(conversations[p]).category = str}

C10_RegularAfterOutgoing ==
    /\ [](\A p \in DOMAIN conversations :
             conversations[p].category = "Regular"
                 /\ OutgoingMessages(conversations[p]) = {}
             => to_json(conversations[p]).category = "unfiltered")
    /\ [][\A p \in DOMAIN conversations :
             /\ p \in DOMAIN conversations'
             /\ conversations[p].category = "Regular"
             /\ conversations'[p].category = "Regular"
             /\ OutgoingMessages(conversations[p]) = {}
             /\ OutgoingMessages(conversations'[p]) # {}
             => to_json(conversations'[p]).category = "regular"]_vars

\* C10 witness: a conversation stored as regular holds a received message and,
\* after it, an outgoing one, and reports "regular"
C10_Witness ==
    \E p \in DOMAIN conversations :
        LET c == conversations[p]
        IN  /\ c.category = "Regular"
            /\ Len(c.messages) = 2
            /\ ~c.messages[1].is_outgoing
            /\ c.messages[2].is_outgoing
            /\ to_json(c).category = "regular"

\* C11: a category assigned to a conversation is persisted per logged-in
\* user: with the user set and the categories file in place, every
\* conversation that is loaded has the category that was last assigned to it
\* and stored, across re-creations of the manager.
C11_CategoryPersisted ==
    dm_user_pubkey = Some(Me) /\ IsSome(categories_file) =>
        \A p \in DOMAIN conversations \cap DOMAIN assigned :
            conversations[p].category = assigned[p]

\* C12: every operation that needs a signature resolves its signing source
\* in the same order: the external signer if one is configured, otherwise the
\* locally held secret key, otherwise it fails with "No signing capability
\* available".
C12_SameSigningOrder ==
    LET precondition == {Err("Not connected to relays"),
            Err("NWC wallet not connected. Please connect your wallet in Settings.")}
    IN  lastSign.op # "none" /\ lastSign.result \notin precondition =>
            IF IsSome(lastSign.signer)
            THEN lastSign.result \in {Ok("signer"), Err("Signing failed")}
            ELSE IF IsSome(lastSign.nsec)
            THEN lastSign.result \in {Ok("local keys"), Err("Invalid nsec")}
            ELSE lastSign.result = Err("No signing capability available")

\* every operation but zap_note does resolve in that order
SigningOrderButZap ==
    lastSign.op \notin {"none", "zap_note"} =>
        \/ lastSign.result = Err("Not connected to relays")
        \/ lastSign.result \in
               {signer_then_keys(lastSign.signer, lastSign.nsec, ok) : ok \in BOOLEAN}

\* the requests of a zap whose stages all ran, in order
FullZapLogs == {<<"GET lnurlp", "GET callback amount", "NWC pay_invoice">>,
                <<"GET lnurlp", "GET callback amount nostr", "NWC pay_invoice">>}

\* C13: a zap call is all-or-nothing: it reports success only when
\* resolution, invoice fetch and payment all ran, in that order; when a stage
\* fails no later stage is executed, and the wallet manager (connection state,
\* cached balance) is left as it was.
C13_ZapAllOrNothing ==
    [][lastCall'.op = "zap" =>
          /\ lastCall'.res.ok => zapLog' \in FullZapLogs
          /\ ~lastCall'.res.ok =>
                /\ nwc' = nwc
                /\ zapArgs'.stage = "resolution" => Len(zapLog') <= 1
                /\ zapArgs'.stage \in {"zap request", "bounds"} => zapLog' = <<"GET lnurlp">>
                /\ zapArgs'.stage = "invoice" =>
                       Len(zapLog') = 2 /\ zapLog'[1] = "GET lnurlp"
                /\ zapArgs'.stage = "payment" =>
                       \E full \in FullZapLogs :
                           zapLog' \in {full, SubSeq(full, 1, 2)}]_vars

\* C13 witness: a zap has failed at the payment stage, after the request went
\* out, on a connected wallet with a cached balance
C13_Witness ==
    /\ lastCall.op = "zap"
    /\ zapArgs.stage = "payment"
    /\ Len(zapLog) = 3
    /\ is_connected(nwc)
    /\ nwc.balance_sats > 0

\* the errors a stage of zap() can fail with
StageErrors(stage) ==
    CASE stage = "resolution" ->
             {resolve_lnurl(l, h, d).res.err :
                  l \in Lud16s, h \in HttpOutcomes, d \in Descriptors} \ {""}
      [] stage = "bounds" ->
             {get_zap_invoice(d, a * MsatsPerSat, None, "ok").res.err :
                  d \in Descriptors, a \in AmountsSats} \ {""}
      [] stage = "invoice" ->
             {get_zap_invoice(d, d.min_sendable, None, h).res.err :
                  d \in {x \in Descriptors : x.min_sendable <= x.max_sendable},
                  h \in HttpOutcomes} \ {""}
      [] stage = "payment" ->
             {pay_invoice(m, "invoice", o, "no_response", 0).res.err :
                  m \in {NwcNew, nwc}, o \in WalletOutcomes} \ {""}

\* C14: the failure returned by a zap call identifies the stage that failed:
\* the error of a call that failed at one of resolution, bounds validation,
\* invoice fetch and payment is not an error another of these stages can fail
\* with.
C14_StagesDistinguishable ==
    LET stages == {"resolution", "bounds", "invoice", "payment"}
    IN  lastCall.op = "zap" /\ zapArgs.stage \in stages =>
            \A other \in stages \ {zapArgs.stage} :
                lastCall.res.err \notin StageErrors(other)

\* the one error text two stages share
StagesDistinguishableButLnurlError ==
    LET stages == {"resolution", "bounds", "invoice", "payment"}
    IN  lastCall.op = "zap" /\ zapArgs.stage \in stages
            /\ lastCall.res.err # "LNURL error" =>
            \A other \in stages \ {zapArgs.stage} :
                lastCall.res.err \notin StageErrors(other)

\* C15: for balance, pay-invoice and make-invoice alike, a decrypted wallet
\* response containing an "error" field yields a failure carrying that error; a
\* response whose result is missing or malformed yields a protocol-violation
\* failure, which is not the failure of a response that never came; a response
\* with a well-formed result yields the success value.
C15_ResponseClassification ==
    LET errors == {Err("NWC error"), Err("Payment failed"), Err("Failed to create invoice")}
    IN  lastCall.op \in {"fetch_balance", "pay_invoice", "make_invoice"} =>
            /\ lastCall.response \in {"error", "result_and_error"} => lastCall.res \in errors
            /\ lastCall.response = "malformed" =>
                   ~lastCall.res.ok /\ lastCall.res # Err("No response from NWC")
                       /\ lastCall.res \notin errors
            /\ lastCall.response = "result" => lastCall.res.ok

\* what the three calls do agree on: a response with the result field they look
\* for is a success, a response with an "error" field and no such result is a
\* failure carrying the error, a response with neither is a failure
ResultFirstClassification ==
    LET errors == {Err("NWC error"), Err("Payment failed"), Err("Failed to create invoice")}
    IN  lastCall.op \in {"fetch_balance", "pay_invoice", "make_invoice"} =>
            /\ HasResult(lastCall.response) => lastCall.res.ok
            /\ lastCall.response = "error" => lastCall.res \in errors
            /\ lastCall.response = "malformed" => lastCall.res = Err("No response from NWC")

\* C16: the result returned for a wallet request is taken only from a response
\* event that is authored by the wallet public key and references that
\* request's id, also when two requests are in flight at once.
C16_ResultFromOwnResponse ==
    \A t \in RpcThreads :
        rpcThreads[t].pc = "returned" /\ rpcThreads[t].res.ok =>
            /\ rpcThreads[t].from.pubkey = WalletPubkey
            /\ rpcThreads[t].from.e = rpcThreads[t].event_id

\* with a relay that sends only events matching the subscription's filter, the
\* result is from the wallet's response to the caller's own request
ResultFromOwnResponseIfRelayFilters ==
    relay_conforms =>
        \A t \in RpcThreads :
            rpcThreads[t].pc = "returned" /\ rpcThreads[t].from # NoEvent =>
                /\ rpcThreads[t].from.pubkey = WalletPubkey
                /\ rpcThreads[t].from.e = rpcThreads[t].event_id

\* two requests in flight at once, both answered by the wallet, one caller
\* holding a result
TwoInFlightBothAnswered ==
    /\ rpcThreads["a"].pc = "returned" /\ rpcThreads["a"].res.ok
    /\ rpcThreads["b"].pc = "waiting"
    /\ WalletResponse(rpcThreads["a"].event_id) \in wallet_relay
    /\ WalletResponse(rpcThreads["b"].event_id) \in wallet_relay
    /\ relay_conforms

RECURSIVE MergedAnswers(_)
\* the events of the sub-queries that succeeded, merged in the order of the calls
MergedAnswers(subs) ==
    IF subs = << >> THEN << >>
    ELSE LET sofar == MergedAnswers(SubSeq(subs, 1, Len(subs) - 1))
             r == client_fetch_events(subs[Len(subs)])
         IN  IF r.ok THEN InsertAll(sofar, Unwrap(r.val)) ELSE sofar

SomeSubQueryFailed == \E i \in 1..Len(lastFetch.subs) : lastFetch.subs[i].failed

\* C17: for every aggregate fetch (following feed, home feed, thread,
\* notifications, note stats) the failure of one sub-query does not make the
\* call fail: it returns the merged results of the sub-queries that succeeded.
C17_SubQueryFailureTolerated ==
    /\ lastFetch.op \in {"fetch_following_feed", "fetch_home_feed", "fetch_thread",
                         "fetch_notifications", "fetch_note_stats"}
           /\ SomeSubQueryFailed
       => lastFetch.res.ok
    /\ lastFetch.op \in {"fetch_following_feed", "fetch_home_feed", "fetch_notifications"}
           /\ SomeSubQueryFailed
       => lastFetch.res = Ok(MergedAnswers(lastFetch.subs))

\* the fetches that join their sub-queries and read each result with
\* `if let Ok` do return the merged results of those that succeeded
JoinedFetchesTolerateFailure ==
    /\ lastFetch.op \in {"fetch_following_feed", "fetch_notifications"}
       => lastFetch.res = Ok(MergedAnswers(lastFetch.subs))
    /\ lastFetch.op = "fetch_note_stats" => lastFetch.res.ok

\* C18: a fetch on a relay manager on which neither connect() nor connect_to()
\* has ever been called fails with a "not connected" error, and no query is
\* sent.
C18_NeverConnectedFailsFast ==
    ~ever_connected /\ lastFetch.op # "none" =>
        /\ lastFetch.res = Err("Not connected")
        /\ lastFetch.subs = << >>

\* what a never-connected manager does: with no following list the feeds are
\* empty successes, and no fetch ever returns a "not connected" error
NeverReturnsNotConnected ==
    /\ lastFetch.res # Err("Not connected")
    /\ lastFetch.op \in {"fetch_following_feed", "fetch_home_feed"} /\ rm.following = {}
       => lastFetch.res = Ok(<< >>)

\* the ids the relays sent for the sub-queries that succeeded
IdsSent ==
    UNION {IF lastFetch.subs[i].failed THEN {}
           ELSE UNION {{a[1][j] : j \in 1..Len(a[1])} :
                          a \in {lastFetch.subs[i].by_relay[r] : r \in RelayUrls} \ {None}} :
           i \in 1..Len(lastFetch.subs)}

\* C19: a feed fetch that merges the answers of several relays and filters
\* returns each distinct event id exactly once, newest first: A(ts 100) sent by
\* two relays and B(ts 90) sent by one give exactly [A, B].
C19_EachIdOnce ==
    lastFetch.op \in {"fetch_following_feed", "fetch_home_feed"} /\ lastFetch.res.ok =>
        LET events == Unwrap(lastFetch.res.val)
        IN  /\ \A i, j \in 1..Len(events) : events[i] = events[j] => i = j
            /\ {events[i] : i \in 1..Len(events)} = IdsSent
            /\ \A i, j \in 1..Len(events) : i < j => created_at(events[i]) >= created_at(events[j])

\* the newer event sent by both relays and the older by one, for the text
\* filter of a following feed
C19_Witness ==
    /\ lastFetch.op = "fetch_following_feed"
    /\ Len(lastFetch.subs) = 2
    /\ ~lastFetch.subs[1].failed
    /\ lastFetch.subs[1].by_relay["r1"] = Some(<<2, 1>>)
    /\ lastFetch.subs[1].by_relay["r2"] = Some(<<2>>)
    /\ lastFetch.res = Ok(<<2, 1>>)

\* C20: ingest_event returns true exactly when the event's id has never been
\* ingested into the store before, and false for every later ingest of the same
\* id, whatever other events were ingested in between.
C20_TrueExactlyWhenNew ==
    lastIngest.result \in {"Ok(true)", "Ok(false)"} =>
        (lastIngest.result = "Ok(true)" <=> ~lastIngest.known)

\* false is returned only for an id that was ingested before, and true for an
\* id that was ingested before only when the memory tier did not hold it
FalseOnlyWhenIngestedBefore ==
    /\ lastIngest.result = "Ok(false)" => lastIngest.known
    /\ ~lastIngest.known /\ lastIngest.result # "none" => lastIngest.result \in {"Ok(true)", "Err"}

\* C21: after any sequence of event inserts the in-memory event tier holds at
\* most MAX_MEMORY_CACHE_SIZE entries; an insert into a full tier evicts exactly
\* the entry inserted earliest among those present, and an insert below
\* capacity evicts nothing.
C21_BoundedFifoEviction ==
    /\ Cardinality(memory_cache.events) <= MAX_MEMORY_CACHE_SIZE
    /\ Len(memory_cache.event_order) = Cardinality(memory_cache.events)
    /\ lastInsert.id # 0 =>
        /\ lastInsert.before < MAX_MEMORY_CACHE_SIZE => lastInsert.evicted = {}
        /\ lastInsert.before >= MAX_MEMORY_CACHE_SIZE /\ ~lastInsert.held
               => lastInsert.evicted = {Head(lastInsert.earliest)}
        /\ lastInsert.held => lastInsert.evicted = {}

\* an insert into a full tier after event 1 was inserted a second time: event 2
\* is then the entry inserted earliest, and it is the one evicted
C21_Witness ==
    /\ lastInsert.id # 0
    /\ lastInsert.before = MAX_MEMORY_CACHE_SIZE
    /\ ~lastInsert.held
    /\ lastInsert.id = 3
    /\ lastInsert.evicted = {2}
    /\ memory_cache.event_order = <<1, 3>>

\* C22: after any sequence of profile ingests the in-memory profile tier holds
\* at most its fixed cap of entries, the least recently inserted profile being
\* evicted when it is full.
C22_ProfileTierBounded ==
    Cardinality(profiles) <= ProfileCapacity

\* insert_profile never takes a profile out of the tier
ProfilesOnlyGrow ==
    [][profiles \subseteq profiles']_vars

\* the positions of a conversation's messages that carry the event id
Copies(peer, id) ==
    IF peer \in DOMAIN conversations
    THEN {i \in DOMAIN conversations[peer].messages : conversations[peer].messages[i].id = id}
    ELSE {}

\* C23: send_message appends the plaintext message to the selected peer's
\* conversation exactly once and only after the publish succeeded: a call that
\* failed appended nothing, a call that succeeded left one outgoing message
\* with the event's id and the typed content, every outgoing message held is
\* one the relays were given, and the relays' echo adds no second copy.
C23_AppendedOnceAfterPublish ==
    /\ ~lastSend.res.ok => ~lastSend.appended
    /\ lastSend.res.ok =>
          /\ lastSend.appended
          /\ Cardinality(Copies(lastSend.peer, lastSend.id)) = 1
          /\ \A i \in Copies(lastSend.peer, lastSend.id) :
                /\ conversations[lastSend.peer].messages[i].content = lastSend.content
                /\ conversations[lastSend.peer].messages[i].is_outgoing
    /\ \A peer \in DOMAIN conversations :
          \A i \in DOMAIN conversations[peer].messages :
             LET held == conversations[peer].messages[i]
             IN  /\ Cardinality(Copies(peer, held.id)) = 1
                 /\ held.is_outgoing => \E e \in dm_events : e.id = held.id /\ e.pubkey = Me

\* a message was sent, and the relays have echoed its event since
C23_Witness ==
    /\ lastSend.res.ok
    /\ lastSend.echoed
    /\ Cardinality(Copies(lastSend.peer, lastSend.id)) = 1

\* send_message fails at each of its stages
SendNeverFails == lastSend.res.err \notin {"Encryption failed", "Signing failed", "Failed to send"}

\* C24: after any sequence of add_message calls, repeated deliveries of one
\* event id included, each conversation holds at most one message per event
\* id and its message list is ascending by creation time.
C24_OnePerIdAscending ==
    \A peer \in DOMAIN conversations :
        LET messages == conversations[peer].messages
        IN  \A i, j \in DOMAIN messages :
                i < j => /\ messages[i].id # messages[j].id
                         /\ messages[i].created_at <= messages[j].created_at

\* the newer message arrived first, and an id was delivered twice
C24_Witness ==
    /\ \E i, j \in DOMAIN delivered : i < j /\ delivered[i] = delivered[j]
    /\ Len(delivered) >= 3 /\ delivered[1] = "m2" /\ delivered[2] = "m1"
    /\ "alice" \in DOMAIN conversations
    /\ Len(conversations["alice"].messages) = 2
    /\ conversations["alice"].messages[1].id = "m1"

\* C25: the protocol choice is per conversation: the protocol in effect while
\* a conversation is selected is the one the user last toggled to for that
\* conversation, whatever was toggled or selected in between.
C25_ChoiceKeptPerConversation ==
    dmc.selected_conversation \in DOMAIN chosen =>
        dmc.current_protocol = chosen[dmc.selected_conversation]

\* toggle_protocol leaves every conversation, and so every held message and
\* its content, as it was
ToggleKeepsMessages ==
    [][dmc'.current_protocol # dmc.current_protocol
       /\ dmc'.selected_conversation = dmc.selected_conversation
       /\ chosen' # chosen
         => conversations' = conversations]_vars

\* toggle_protocol never writes the selected conversation's own protocol
ChoiceNotStoredInConversation ==
    [][chosen' # chosen =>
          \A p \in DOMAIN conversations : conversations'[p].protocol = conversations[p].protocol]_vars

\* the URI has no pubkey text, no relay parameter or no secret parameter
LacksPart(uri) ==
    LET q == Find(uri, "?")
    IN  \/ q = 0
        \/ q = 2
        \/ ~\E i \in (q + 1)..(Len(uri) - 1) : uri[i] = "relay" /\ uri[i + 1] = "="
        \/ ~\E i \in (q + 1)..(Len(uri) - 1) : uri[i] = "secret" /\ uri[i + 1] = "="

ParseErrors ==
    {"Missing query parameters in NWC URI", "Invalid pubkey in NWC URI",
     "Missing relay in NWC URI", "Missing secret in NWC URI", "Failed to decode relay URL"}

\* C26: a wallet URI without the wallet pubkey, the relay parameter or the
\* secret parameter does not parse, and connect() with it returns the parse
\* error to its caller and opens no relay connection.
C26_IncompleteUriIsParseError ==
    /\ \A uri \in Uris : LacksPart(uri) =>
           ~from_uri(uri).ok /\ from_uri(uri).err \in ParseErrors
    /\ (lastCall.op = "connect" /\ LacksPart(lastCall.uri)) =>
           /\ lastCall.res = from_uri(lastCall.uri)
           /\ ~lastCall.res.ok
           /\ ~lastCall.opened

\* connect() with a URI that has no secret has returned, after an earlier
\* connect had succeeded: the connection it had is the one it still has
C26_Witness ==
    /\ lastCall.op = "connect"
    /\ lastCall.res = Err("Missing secret in NWC URI")
    /\ ~lastCall.opened
    /\ nwc.client = Some(RelayR1)

\* connect() fails for each missing part
EveryUriConnects == lastCall.op = "connect" => lastCall.res.ok

UnencodedUriParsesBack ==
    (uri_call # NoUriCall /\ ~uri_call.encoded) =>
        /\ uri_call.parsed.ok
        /\ Unwrap(uri_call.parsed.val).relay_url = uri_call.relay

\* ... which holds for the relay URLs without '%' and '&'
PlainUnencodedUriParsesBack ==
    (uri_call # NoUriCall /\ ~uri_call.encoded
       /\ \A i \in DOMAIN uri_call.relay : uri_call.relay[i] \notin {"%", "&"}) =>
        /\ uri_call.parsed.ok
        /\ Unwrap(uri_call.parsed.val).relay_url = uri_call.relay

\* the invoice asks for this amount text and multiplier, on a known network
Asks(invoice, amount, tail) ==
    \E prefix \in {<<"l", "n", "b", "c">>, <<"L", "N", "B", "C">>, <<"l", "n", "t", "b">>} :
        invoice = prefix \o amount \o tail

\* C29: both amount parsers take 100 micro-units for 10,000 sats and 1
\* milli-unit for 100,000 sats, and neither finds an amount in a text with
\* an unrecognized prefix.
C29_DocumentedMultipliers ==
    /\ (\E tail \in {<<"u">>, <<"u", "1", "p">>} :
           Asks(invoice_call.invoice, <<"1", "0", "0">>, tail)) =>
          /\ invoice_call.stats = Some(Msats(10000, 0))
          /\ invoice_call.notification = Some(10000)
    /\ (\E tail \in {<<"m">>, <<"M">>} : Asks(invoice_call.invoice, <<"1">>, tail)) =>
          /\ invoice_call.stats = Some(Msats(100000, 0))
          /\ invoice_call.notification = Some(100000)
    /\ (invoice_call.invoice # << >>
        /\ ~starts_with(to_lowercase(invoice_call.invoice), <<"l", "n", "b", "c">>)
        /\ ~starts_with(to_lowercase(invoice_call.invoice), <<"l", "n", "t", "b">>)) =>
          /\ invoice_call.stats = None
          /\ invoice_call.notification = None

\* an invoice for 100 micro-units, as a wallet writes it, went through both
C29_Witness ==
    /\ invoice_call.invoice = <<"l", "n", "b", "c", "1", "0", "0", "u", "1", "p">>
    /\ invoice_call.stats = Some(Msats(10000, 0))
    /\ invoice_call.notification = Some(10000)

\* whenever both parsers find an amount it is the same number of whole sats
ParsersAgree ==
    (IsSome(invoice_call.stats) /\ IsSome(invoice_call.notification)) =>
        Unwrap(invoice_call.stats).sats = Unwrap(invoice_call.notification)

\* the notes a receipt refers to, and the whole sats its invoice asks for
ReferredNotes(e) == {Tags(e)[i][2] : i \in {j \in DOMAIN Tags(e) : Tags(e)[j][1] = "e"}}
InvoiceSats(e) ==
    LET i == CHOOSE j \in DOMAIN Tags(e) : Tags(e)[j][1] = "bolt11"
    IN  Unwrap(extract_bolt11_amount(Tags(e)[i][2])).sats

RECURSIVE SumFor(_, _)
\* the sum of the amounts of the receipts among zaps that refer to the note
SumFor(note, zaps) ==
    IF zaps = << >> THEN 0
    ELSE (IF note \in ReferredNotes(Head(zaps)) THEN InvoiceSats(Head(zaps)) ELSE 0)
         + SumFor(note, Tail(zaps))

\* the receipts the last fetch_note_stats call got from the relays
FetchedZaps ==
    IF lastFetch.subs # << >> /\ client_fetch_events(lastFetch.subs[2]).ok
    THEN Unwrap(client_fetch_events(lastFetch.subs[2]).val) ELSE << >>

\* C28: for every requested note the reported zap total is the sum of the
\* amounts of all fetched receipts that refer to the note.
C28_ZapTotalIsSumOfReceipts ==
    lastFetch.op = "fetch_note_stats" =>
        \A note \in DOMAIN Unwrap(lastFetch.res.val) :
            Unwrap(lastFetch.res.val)[note].zap_total = SumFor(note, FetchedZaps)

\* the same when every fetched receipt refers to one note only
ZapTotalIsSumOfSingleTargetReceipts ==
    (lastFetch.op = "fetch_note_stats"
       /\ \A i \in DOMAIN FetchedZaps : Cardinality(ReferredNotes(FetchedZaps[i])) = 1) =>
        \A note \in DOMAIN Unwrap(lastFetch.res.val) :
            Unwrap(lastFetch.res.val)[note].zap_total = SumFor(note, FetchedZaps)

\* receipts are summed: two receipts for one note never show in its total
NeverTwoReceiptsSummed ==
    ~(/\ lastFetch.op = "fetch_note_stats"
      /\ "n2" \in DOMAIN Unwrap(lastFetch.res.val)
      /\ Unwrap(lastFetch.res.val)["n2"].zap_count = 2
      /\ Unwrap(lastFetch.res.val)["n2"].zap_total = 101000)

\* C30: fetch_thread returns the ancestors ascending by creation time, the
\* target, and the replies ascending by creation time, and after load_thread
\* the thread view lists exactly these, in that order.
C30_ThreadOrder ==
    /\ (lastFetch.op \in {"fetch_thread", "load_thread"} /\ lastFetch.res.ok
        /\ lastFetch.subs # << >>) =>
          LET thread == Unwrap(lastFetch.res.val)
          IN  /\ \A i, j \in DOMAIN thread.parents :
                     i < j => created_at(thread.parents[i]) <= created_at(thread.parents[j])
              /\ \A i, j \in DOMAIN thread.replies :
                     i < j => created_at(thread.replies[i]) <= created_at(thread.replies[j])
              /\ IsSome(thread.target)
    /\ (lastFetch.op = "load_thread" /\ lastFetch.res.ok /\ lastFetch.subs # << >>) =>
          LET thread == Unwrap(lastFetch.res.val)
          IN  [i \in DOMAIN thread_notes |-> thread_notes[i].id]
                  = thread.parents \o <<Unwrap(thread.target)>> \o thread.replies

\* the parent was fetched before the grandparent (the fetch of the target's
\* first tag found nothing) and the newer reply came first from the relay:
\* the view lists grandparent, parent, target, replies
C30_Witness ==
    /\ lastFetch.op = "load_thread"
    /\ lastFetch.res.ok
    /\ Len(lastFetch.subs) = 5
    /\ ~TargetFound(lastFetch.subs[2])
    /\ [i \in DOMAIN thread_notes |-> thread_notes[i].id] = <<1, 2, 3, 4, 5>>

(***************************************************************************)
(* C32  requests and the Connected state                                   *)
(***************************************************************************)

WalletOperations == {"pay_invoice", "fetch_balance", "make_invoice"}

\* the call of this step went past the "Not connected to NWC" return, so it
\* built a request for the wallet of self.connection
RequestBuilt == /\ lastCall'.op \in WalletOperations
                /\ lastCall'.res # Err("Not connected to NWC")

\* C32: pay_invoice, fetch_balance and make_invoice get as far as a request
\* only when the manager's state is Connected; after a connect() that failed
\* no request goes to the wallet connected before.
C32_RequestsOnlyWhileConnected ==
    [][RequestBuilt => is_connected(nwc)]_vars

\* what the three operations do test: client, connection and keys are set
RequestsOnlyWithClient ==
    [][RequestBuilt => IsSome(nwc.client) /\ IsSome(nwc.connection) /\ IsSome(nwc.keys)]_vars

\* after disconnect() (or before any connect) no request is built
NoRequestWhileDisconnected ==
    [][nwc.state = "Disconnected" => ~RequestBuilt]_vars

\* a connect() that failed has left the earlier wallet in place
FailedConnectKeepsWallet ==
    ~(/\ lastCall.op = "connect" /\ ~lastCall.res.ok
      /\ nwc.state = "Connecting" /\ IsSome(nwc.client))

(***************************************************************************)
(* C36, C37  note stats fetched in the background                          *)
(***************************************************************************)

\* C37: for every note id at most one stats fetch is in flight at a time, and
\* no fetch is spawned for an id whose stats are already cached.
C37_OneFetchAndNoneWhenCached ==
    /\ \A t1, t2 \in statsThreads : t1.id = t2.id => t1.k = t2.k
    /\ \A f \in stats_started : ~f.cached /\ ~f.in_flight

\* the first half alone: never two fetches of one id at a time
AtMostOneStatsFetchInFlight ==
    /\ \A t1, t2 \in statsThreads : t1.id = t2.id => t1.k = t2.k
    /\ \A f \in stats_started : ~f.in_flight

\* two fetches are spawned for one id
StatsNeverFetchedTwice ==
    \A f1, f2 \in stats_started : f1.id = f2.id => f1.k = f2.k

\* a fetch_note_stats call that returned in this step, for an id whose fetch
\* ended in an error
ReturnedAfterFailure ==
    /\ statsCall'.pc = "idle" /\ statsCall' # statsCall
    /\ statsCall'.id \in stats_failed

\* C36: an operation that failed because no relay connection is established
\* is answered with an error: the failure is not handed to the caller as an
\* empty or successful result.
C36_FailureReachesCaller ==
    [][ReturnedAfterFailure => statsCall'.ret # EmptyStats]_vars

\* a fetch that succeeded is handed to the caller as fetched
SuccessReachesCaller ==
    [][/\ statsCall'.pc = "idle" /\ statsCall' # statsCall
       /\ ~statsCall'.ret.loading
       => /\ statsCall'.id \in DOMAIN NOTE_STATS_CACHE
          /\ statsCall'.ret = NOTE_STATS_CACHE[statsCall'.id]]_vars

(***************************************************************************)
(* C39  the ancestors of a thread                                          *)
(***************************************************************************)

\* C39: the ancestor list fetch_thread returns holds each event at most once,
\* also when the target and one of its parents name the same root event.
C39_AncestorsListedOnce ==
    (lastFetch.op \in {"fetch_thread", "load_thread"} /\ lastFetch.res.ok
     /\ lastFetch.subs # << >>) =>
        LET parents == Unwrap(lastFetch.res.val).parents
        IN  \A i, j \in DOMAIN parents : parents[i] = parents[j] => i = j

\* the same when the root was found by one of the two fetches only
AncestorsListedOnceWhenFoundOnce ==
    (/\ lastFetch.op \in {"fetch_thread", "load_thread"} /\ lastFetch.res.ok
     /\ Len(lastFetch.subs) = 5
     /\ ~(TargetFound(lastFetch.subs[2]) /\ TargetFound(lastFetch.subs[5]))) =>
        LET parents == Unwrap(lastFetch.res.val).parents
        IN  \A i, j \in DOMAIN parents : parents[i] = parents[j] => i = j

\* the thread view never lists a note twice
ThreadViewListsOnce ==
    \A i, j \in DOMAIN thread_notes : thread_notes[i].id = thread_notes[j].id => i = j

(***************************************************************************)
(* C38  the held list and the current feed                                 *)
(***************************************************************************)

\* C38: once every load has been delivered the held list belongs to the
\* current feed, and the list cached under each key holds only notes fetched
\* for that key's feed.
C38_HeldListOfCurrentFeed ==
    InFlight = 0 =>
        /\ held_for \subseteq {FeedType_from_str(current_feed)}
        /\ \A k \in FeedKeys : cached_for[k] \subseteq {FeedType_from_str(k)}

\* what a load_feed thread itself caches is filed under its own feed
LoadFeedCachesUnderOwnFeed ==
    [][\A k \in FeedKeys :
          (feedThreads'[k] < feedThreads[k] /\ FEED_CACHE'[k] # FEED_CACHE[k])
             => cached_for'[k] \subseteq {FeedType_from_str(k)}]_vars

\* a load_feed closure installs its notes only while its feed is the current one
DeliveredListIsForCurrentFeed ==
    [][(qtQueue # << >> /\ qtQueue' = Tail(qtQueue) /\ Head(qtQueue).kind = "loaded"
        /\ notes' = Head(qtQueue).notes /\ notes' # << >>)
       => FeedType_from_str(Head(qtQueue).feed_name) = FeedType_from_str(current_feed)]_vars

(***************************************************************************)
(* C35, C40  workers that panic, and the loading flag                      *)
(***************************************************************************)

\* C35: when the background unit of an operation has panicked the operation
\* is answered all the same: the loading state is cleared and the view gets
\* an error notification.
C35_PanicAnswered ==
    feed_outcome.worker = "panic" =>
        ~is_loading /\ feed_outcome.signal = "error_occurred"

\* the same for the workers that are joined: load_more and check_for_new
JoinedPanicAnswered ==
    [][(feed_outcome'.worker = "panic" /\ feedThreads' = feedThreads) =>
          ~is_loading' /\ feed_outcome'.signal = "error_occurred"]_vars

\* a worker of load_more or check_for_new has panicked
JoinedPanicSeen ==
    ~(feed_outcome.worker = "panic" /\ feed_outcome.signal = "error_occurred")

\* C40: whenever is_loading has been set it is cleared again, on every
\* outcome of the operation that set it.
C40_LoadingEventuallyCleared == is_loading ~> ~is_loading

(***************************************************************************)
(* C31, C33, C34  sessions, signing sources and the wallet of zap_note     *)
(***************************************************************************)

\* a signing operation ran in this step
Signs(ops) == lastSign' # lastSign /\ lastSign'.op \in ops

WalletNotConnected == Err("NWC wallet not connected. Please connect your wallet in Settings.")

\* C31: while the wallet connected through connect_nwc is connected, zap_note
\* does not fail with "wallet not connected".
C31_ZapUsesConnectedWallet ==
    [][(is_connected(NWC_MANAGER) /\ app.nwc_connected /\ Signs({"zap_note"}))
       => lastSign'.result # WalletNotConnected]_vars

\* zap_note gets past its wallet test in no reachable state
ZapNoteAlwaysWithoutWallet ==
    [][Signs({"zap_note"}) => lastSign'.result = WalletNotConnected]_vars

\* connect_nwc does connect a wallet
WalletNeverConnected == ~(is_connected(NWC_MANAGER) /\ app.nwc_connected)

\* C33: after logout and until the next login, posting, DM sending and
\* zapping fail: no key of the closed session signs.
C33_NothingSignsAfterLogout ==
    [][(~app.logged_in /\ Signs(FeedOperations \cup {"send_message", "zap_note"}))
       => ~lastSign'.result.ok]_vars

\* logout closes the wallet connection
LogoutClosesWallet ==
    [][(app.logged_in /\ ~app'.logged_in) => ~is_connected(NWC_MANAGER')]_vars

\* logout does drop the external signer held by the application
LogoutDropsSignerClient ==
    [][(app.logged_in /\ ~app'.logged_in) => SIGNER_CLIENT' = None]_vars

\* C34: in a session opened by login_with_signer the signing operations sign
\* with the external signer and never fail for lack of a signing capability.
C34_SignerSessionSigns ==
    [][(session = "signer" /\ app.logged_in
        /\ Signs(FeedOperations \cup {"send_message"}))
       => /\ lastSign'.result # Err("No signing capability available")
          /\ lastSign'.result.ok => Unwrap(lastSign'.result.val) = "signer"]_vars

\* in a session opened by login_with_signer nothing is ever signed by the signer
SignerNeverSigns ==
    [][(session = "signer" /\ Signs(FeedOperations \cup {"send_message"}))
       => ~(lastSign'.result.ok /\ Unwrap(lastSign'.result.val) = "signer")]_vars

\* a session opened by login_with_signer exists
NoSignerSession == ~(session = "signer" /\ app.logged_in)

====
